---------------------------- MODULE Spec2Model ----------------------------
(***************************************************************************)
(* MerViz: the live-preview pipeline of the diagram editor (App component  *)
(* and the mermaidClient adapter).  The model follows the component's      *)
(* state (useState cells), the closures its handlers capture at a render   *)
(* (code, config, fitToViewport), the debounce timer, the in-flight        *)
(* renderMermaid calls with the engine's global configuration, and the     *)
(* viewport fit computation.                                               *)
(*                                                                         *)
(* Numbers that are reals in the program (zoom, split percentage, scale)   *)
(* are exact rationals <<n, d>> with d > 0, in lowest terms.               *)
(***************************************************************************)
EXTENDS Integers, Sequences, FiniteSets, TLC

(***************************************************************************)
(* Bounds of the model.                                                    *)
(***************************************************************************)
\* the clock stops here
MaxTime == 400
\* the largest step by which the clock advances
TickStep == 50
\* renderMermaid calls started in one behaviour
MaxRenders == 2
\* user edits (text, theme, font, auto-update) in one behaviour
MaxEdits == 2
\* viewport events (fit toggle, zoom buttons, resizes, splitter moves) in one behaviour
MaxViews == 2
\* viewport events in one behaviour that ends with presses of the zoom buttons
MaxSteps == 5
\* pointer downs on the splitter without a pointer up between them
MaxPointers == 2

(***************************************************************************)
(* Exact rational arithmetic.                                              *)
(***************************************************************************)
Abs(x) == IF x < 0 THEN -x ELSE x

RECURSIVE Gcd(_, _)
Gcd(a, b) == IF b = 0 THEN a ELSE Gcd(b, a % b)

\* n / d in lowest terms, d > 0
Rat(n, d) ==
  LET s == IF d < 0 THEN -1 ELSE 1
      g == Gcd(Abs(n), Abs(d))
  IN  <<(s * n) \div g, (s * d) \div g>>

RInt(k) == <<k, 1>>
RLe(a, b) == a[1] * b[2] <= b[1] * a[2]
RLt(a, b) == a[1] * b[2] < b[1] * a[2]
RMin(a, b) == IF RLe(a, b) THEN a ELSE b
RMax(a, b) == IF RLe(a, b) THEN b ELSE a
RAdd(a, b) == Rat(a[1] * b[2] + b[1] * a[2], a[2] * b[2])
RSub(a, b) == Rat(a[1] * b[2] - b[1] * a[2], a[2] * b[2])
RMul(a, b) == Rat(a[1] * b[1], a[2] * b[2])
\* a / b, b # 0
RDiv(a, b) == Rat(a[1] * b[2], a[2] * b[1])
\* Math.round: the nearest integer, halves towards +infinity
RRound(a) == (2 * a[1] + a[2]) \div (2 * a[2])

(***************************************************************************)
(* Binary floating point.  A Number of the program is an IEEE 754 double.   *)
(* A number the program stores (the split, the zoom factor) is kept as the *)
(* double together with the exact rational it was rounded from.            *)
(* A positive double is its exponent e and its 53 significand bits m, most *)
(* significant first: the value is the sum of m[i] * 2^(e + 1 - i).        *)
(***************************************************************************)
\* the bits of a significand
SIGNIFICAND == 53

\* the double 0
DZero == [e |-> 0, m |-> <<>>]

\* n / d scaled by a power of two into [1, 2), for n, d > 0: the scaled
\* numerator and denominator, and the exponent e with 2^e <= n/d < 2^(e+1)
RECURSIVE Normalised(_, _, _)
Normalised(n, d, e) ==
  IF n >= 2 * d THEN Normalised(n, 2 * d, e + 1)
  ELSE IF n < d THEN Normalised(2 * n, d, e - 1)
  ELSE [n |-> n, d |-> d, e |-> e]

\* 2^k modulo d
RECURSIVE Pow2Mod(_, _)
Pow2Mod(k, d) ==
  IF k = 0 THEN 1 % d
  ELSE IF k % 2 = 0 THEN CHOOSE v \in {(h * h) % d : h \in {Pow2Mod(k \div 2, d)}} : TRUE
  ELSE (2 * Pow2Mod(k - 1, d)) % d

\* the remainder after k bits of the binary expansion of r / d, for
\* 0 <= r < d < 2^15
RemainderAfter(r, d, k) == (r * Pow2Mod(k, d)) % d

\* the first k bits of that expansion, by long division
RECURSIVE BinaryDigits(_, _, _)
BinaryDigits(r, d, k) ==
  IF k = 0 THEN <<>>
  ELSE <<IF 2 * r >= d THEN 1 ELSE 0>> \o BinaryDigits((2 * r) % d, d, k - 1)

\* bits + 1 in the last place, for bits that are not all 1
Increment(bits) ==
  LET j == CHOOSE i \in 1..Len(bits) :
             bits[i] = 0 /\ \A k \in (i + 1)..Len(bits) : bits[k] = 1
  IN  SubSeq([i \in 1..Len(bits) |-> IF i < j THEN bits[i] ELSE IF i = j THEN 1 ELSE 0],
             1, Len(bits))

\* round to nearest, ties to even: the double nearest to the value with
\* exponent e whose expansion starts with bits (a leading 1, at least 54
\* bits) and goes on with more 1 bits exactly if sticky
RoundToDouble(e, bits, sticky) ==
  LET m     == SubSeq(bits, 1, SIGNIFICAND)
      guard == bits[SIGNIFICAND + 1] = 1
      rest  == sticky \/ \E i \in (SIGNIFICAND + 2)..Len(bits) : bits[i] = 1
      up    == guard /\ (rest \/ m[SIGNIFICAND] = 1)
  IN  IF ~up THEN [e |-> e, m |-> m]
      ELSE IF \A i \in 1..SIGNIFICAND : m[i] = 1
      THEN [e |-> e + 1,
            m |-> SubSeq([i \in 1..SIGNIFICAND |-> IF i = 1 THEN 1 ELSE 0], 1, SIGNIFICAND)]
      ELSE [e |-> e, m |-> Increment(m)]

\* the double nearest to n / d, given scaled into [1, 2) as q
FlNormalised(q) ==
  CHOOSE x \in { RoundToDouble(q.e, bits, RemainderAfter(q.n - q.d, q.d, SIGNIFICAND) # 0) :
                   bits \in {<<1>> \o BinaryDigits(q.n - q.d, q.d, SIGNIFICAND)} } : TRUE

\* the double nearest to the rational a >= 0
Fl(a) ==
  IF a[1] = 0 THEN DZero
  ELSE CHOOSE x \in { FlNormalised(q) : q \in {Normalised(a[1], a[2], 0)} } : TRUE

\* the bit of weight 2^p of the double x
BitAt(x, p) ==
  IF x.m # <<>> /\ p <= x.e /\ p > x.e - SIGNIFICAND THEN x.m[x.e + 1 - p] ELSE 0

\* the lowest and the highest weight of x and y
LowestWeight(x, y) ==
  LET lx == IF x.m = <<>> THEN y.e ELSE x.e
      ly == IF y.m = <<>> THEN x.e ELSE y.e
  IN  (IF lx < ly THEN lx ELSE ly) + 1 - SIGNIFICAND
HighestWeight(x, y) ==
  LET hx == IF x.m = <<>> THEN y.e ELSE x.e
      hy == IF y.m = <<>> THEN x.e ELSE y.e
  IN  IF hx > hy THEN hx ELSE hy

\* the carry into weight 2^p when x and y are added: some lower weight
\* generates one and every weight between passes it on
CarryInto(x, y, p) ==
  IF \E j \in LowestWeight(x, y)..(p - 1) :
       /\ BitAt(x, j) + BitAt(y, j) = 2
       /\ \A k \in (j + 1)..(p - 1) : BitAt(x, k) + BitAt(y, k) >= 1
  THEN 1 ELSE 0

\* the borrow from weight 2^p when y is subtracted from x
BorrowFrom(x, y, p) ==
  IF \E j \in LowestWeight(x, y)..(p - 1) :
       /\ BitAt(x, j) < BitAt(y, j)
       /\ \A k \in (j + 1)..(p - 1) : BitAt(x, k) <= BitAt(y, k)
  THEN 1 ELSE 0

\* the double of the exact value with the bits given from weight 2^high
\* down, not all of them 0: the bits from the first 1 on, rounded
DoubleOfBits(bits, high) ==
  LET t == CHOOSE i \in 1..Len(bits) : bits[i] = 1 /\ \A k \in 1..(i - 1) : bits[k] = 0
      n == IF Len(bits) - t + 1 > SIGNIFICAND THEN Len(bits) - t + 1 ELSE SIGNIFICAND + 1
  IN  RoundToDouble(high + 1 - t,
                    SubSeq([i \in 1..n |-> IF t + i - 1 <= Len(bits) THEN bits[t + i - 1] ELSE 0],
                           1, n),
                    FALSE)

\* x + y of two doubles x, y > 0: the exact sum, rounded
DAdd(x, y) ==
  LET high == HighestWeight(x, y) + 1
      n    == high - LowestWeight(x, y) + 1
  IN  DoubleOfBits(SubSeq([i \in 1..n |->
                             (BitAt(x, high + 1 - i) + BitAt(y, high + 1 - i)
                                + CarryInto(x, y, high + 1 - i)) % 2], 1, n), high)

\* x - y of two doubles x > y >= 0: the exact difference, rounded
DSub(x, y) ==
  LET high == HighestWeight(x, y)
      n    == high - LowestWeight(x, y) + 1
  IN  DoubleOfBits(SubSeq([i \in 1..n |->
                             (BitAt(x, high + 1 - i) - BitAt(y, high + 1 - i)
                                - BorrowFrom(x, y, high + 1 - i) + 2) % 2], 1, n), high)

\* x < y, for doubles x, y >= 0
DLt(x, y) ==
  IF y.m = <<>> THEN FALSE
  ELSE IF x.m = <<>> THEN TRUE
  ELSE IF x.e # y.e THEN x.e < y.e
  ELSE \E i \in 1..SIGNIFICAND :
         x.m[i] < y.m[i] /\ \A j \in 1..(i - 1) : x.m[j] = y.m[j]

\* x >= a, for a double x >= 0 and a rational a > 0
DGe(x, a) ==
  LET q    == Normalised(a[1], a[2], 0)
      bits == BinaryDigits(q.n - q.d, q.d, SIGNIFICAND - 1)
      rem  == RemainderAfter(q.n - q.d, q.d, SIGNIFICAND - 1)
      diff == {i \in 2..SIGNIFICAND : x.m[i] # bits[i - 1]}
  IN  IF x.m = <<>> THEN FALSE
      ELSE IF x.e # q.e THEN x.e > q.e
      ELSE IF diff = {} THEN rem = 0
      ELSE x.m[CHOOSE i \in diff : \A j \in diff : i <= j] = 1

\* x <= a, for a double x >= 0 and a rational a
DLe(x, a) ==
  IF x.m = <<>> THEN a[1] >= 0
  ELSE IF a[1] <= 0 THEN FALSE
  ELSE \E q \in {Normalised(a[1], a[2], 0)} :
         \E bits \in {BinaryDigits(q.n - q.d, q.d, SIGNIFICAND - 1)} :
           LET diff == {i \in 2..SIGNIFICAND : x.m[i] # bits[i - 1]}
           IN  IF x.e # q.e THEN x.e < q.e
               ELSE IF diff = {} THEN TRUE
               ELSE x.m[CHOOSE i \in diff : \A j \in diff : i <= j] = 0

\* +(x).toFixed(2) for the double x >= 0 that stands for the rational
\* a >= 0 (x is the double nearest to a, or differs from a by the rounding
\* of a few operations): n / 100 for the integer n with n / 100 nearest to
\* x, the larger n of two.  Where a is half-way between two candidates the
\* double decides; everywhere else it is too near to a to change n.
ToFixed2(x, a) ==
  LET h == RMul(a, RInt(200))
  IN  IF h[2] = 1 /\ h[1] % 2 = 1
      THEN Rat(IF \E v \in {x} : DGe(v, a) THEN (h[1] + 1) \div 2 ELSE (h[1] - 1) \div 2, 100)
      ELSE Rat(RRound(RMul(a, RInt(100))), 100)

\* the number with the bits b, most significant first, and the n bits of
\* the number v < 2^n
RECURSIVE NatOfBits(_)
NatOfBits(b) ==
  IF b = <<>> THEN 0 ELSE 2 * NatOfBits(SubSeq(b, 1, Len(b) - 1)) + b[Len(b)]
BitsOfNat(v, n) == SubSeq([i \in 1..n |-> (v \div 2^(n - i)) % 2], 1, n)

\* x * k of a double x > 0 and an integer 0 < k < 2^12: the exact product,
\* taken on three parts of the significand, rounded
DTimes(x, k) ==
  LET lo   == k * NatOfBits(SubSeq(x.m, 36, 53))
      mid  == k * NatOfBits(SubSeq(x.m, 18, 35)) + lo \div 2^18
      hi   == k * NatOfBits(SubSeq(x.m, 1, 17)) + mid \div 2^18
  IN  CHOOSE y \in { DoubleOfBits(bits, x.e + 13) :
                       bits \in { BitsOfNat(hi, 30) \o BitsOfNat(mid % 2^18, 18)
                                    \o BitsOfNat(lo % 2^18, 18) } } : TRUE

\* Math.round(x) for the double x >= 0 that stands for the rational a >= 0:
\* the nearest integer, the larger one of two.  Where a is half-way between
\* two integers the double decides; everywhere else it is too near to a to
\* change the integer.
MathRound(x, a) ==
  LET h == RMul(a, RInt(2))
  IN  IF h[2] = 1 /\ h[1] % 2 = 1
      THEN (IF \E v \in {x} : DGe(v, a) THEN (h[1] + 1) \div 2 ELSE (h[1] - 1) \div 2)
      ELSE RRound(a)

\* -a
RNeg(a) == <<-a[1], a[2]>>

\* Math.round(x) of a double 0 <= x < 2^30: the whole part of x, and one
\* more when the first bit after the point is 1
DRound(x) ==
  IF x.m = <<>> \/ x.e < -1 THEN 0
  ELSE IF x.e = -1 THEN 1
  ELSE NatOfBits(SubSeq(x.m, 1, x.e + 1))
         + (IF x.e + 2 <= SIGNIFICAND THEN x.m[x.e + 2] ELSE 0)

\* a significand as a whole number in four parts of 14 bits, the least
\* significant part first
Limbs(m) ==
  CHOOSE l \in { <<NatOfBits(SubSeq(b, 43, 56)), NatOfBits(SubSeq(b, 29, 42)),
                   NatOfBits(SubSeq(b, 15, 28)), NatOfBits(SubSeq(b, 1, 14))>> :
                   b \in {<<0, 0, 0>> \o m} } : TRUE

\* the sum of the products of parts of a and b whose weights multiply to
\* that of part k (counted from 0)
Column(a, b, k) ==
  LET term(i) == IF k + 2 - i \in 1..4 THEN a[i] * b[k + 2 - i] ELSE 0
  IN  term(1) + term(2) + term(3) + term(4)

\* the 112 bits of the product of two significands given in parts, most
\* significant first: part k of the product and the carry into part k + 1
RECURSIVE ProductBits(_, _, _, _)
ProductBits(a, b, k, carry) ==
  IF k > 7 THEN <<>>
  ELSE CHOOSE s \in { ProductBits(a, b, k + 1, t \div 2^14) \o BitsOfNat(t % 2^14, 14) :
                        t \in {Column(a, b, k) + carry} } : TRUE

\* x * y of two doubles x, y >= 0: the exact product, rounded
DMul(x, y) ==
  IF x.m = <<>> \/ y.m = <<>> THEN DZero
  ELSE CHOOSE z \in { DoubleOfBits(bits, x.e + y.e + 7) :
                        bits \in {ProductBits(Limbs(x.m), Limbs(y.m), 0, 0)} } : TRUE

\* a significand as a whole number in two parts, the upper 26 bits and the
\* lower 27; twice such a number, >= and - of two of them
Parts(m) == <<NatOfBits(SubSeq(m, 1, 26)), NatOfBits(SubSeq(m, 27, 53))>>
PartsTwice(r) == <<2 * r[1] + (2 * r[2]) \div 2^27, (2 * r[2]) % 2^27>>
PartsGe(r, d) == r[1] > d[1] \/ (r[1] = d[1] /\ r[2] >= d[2])
PartsMinus(r, d) ==
  IF r[2] >= d[2] THEN <<r[1] - d[1], r[2] - d[2]>>
  ELSE <<r[1] - d[1] - 1, r[2] + 2^27 - d[2]>>

\* one step of the long division by d: the remainder r is doubled, the next
\* bit of the quotient is 1 exactly if d goes into it
DivisionStep(st, d) ==
  LET t == PartsTwice(st.r)
  IN  IF PartsGe(t, d) THEN [bits |-> Append(st.bits, 1), r |-> PartsMinus(t, d)]
      ELSE [bits |-> Append(st.bits, 0), r |-> t]

\* eight steps, and k times eight
DivisionSteps(st, d) ==
  DivisionStep(DivisionStep(DivisionStep(DivisionStep(
    DivisionStep(DivisionStep(DivisionStep(DivisionStep(st, d), d), d), d), d), d), d), d)
RECURSIVE LongDivision(_, _, _)
LongDivision(st, d, k) ==
  IF k = 0 THEN st
  ELSE CHOOSE q \in {LongDivision(n, d, k - 1) : n \in {DivisionSteps(st, d)}} : TRUE

\* x / y of two doubles x >= 0, y > 0: the exact quotient, rounded.  The
\* quotient of the significands is in (1/2, 2): its expansion starts at
\* the units when it is at least 1 and at the halves otherwise; 56 bits
\* after the point are taken, and whether the division left a remainder.
DDiv(x, y) ==
  IF x.m = <<>> THEN DZero
  ELSE CHOOSE z \in UNION { IF PartsGe(n, d)
                            THEN { RoundToDouble(x.e - y.e, <<1>> \o q.bits, q.r # <<0, 0>>) :
                                     q \in {LongDivision([bits |-> <<>>, r |-> PartsMinus(n, d)],
                                                         d, 7)} }
                            ELSE { RoundToDouble(x.e - y.e - 1, q.bits, q.r # <<0, 0>>) :
                                     q \in {LongDivision([bits |-> <<>>, r |-> n], d, 7)} } :
                            n \in {Parts(x.m)}, d \in {Parts(y.m)} } : TRUE

(***************************************************************************)
(* Values of the program.                                                  *)
(***************************************************************************)
\* JavaScript null / undefined, and a storage key that is absent
Null == "<null>"
Undefined == "<undefined>"

DEFAULT_CODE ==
  "flowchart TD\n  A[Start] --> B{Condition?}\n  B -- Yes --> C[Do thing]\n  B -- No --> D[Something else]\n  C --> E[End]\n  D --> E"

DEFAULT_FONT == "Inter, system-ui, Avenir, Helvetica, Arial, sans-serif"

BUILTIN_THEMES == {"default", "neutral", "dark", "forest", "base"}

CUSTOM_THEMES ==
  [ professionalLight |->
      [ label |-> "Professional Light", base |-> "neutral",
        variables |->
          [ background |-> "#ffffff", primaryColor |-> "#2563eb",
            primaryTextColor |-> "#0f172a", primaryBorderColor |-> "#cbd5e1",
            lineColor |-> "#64748b", textColor |-> "#0f172a",
            mainBkg |-> "#ffffff", nodeBorder |-> "#e2e8f0",
            clusterBkg |-> "#f8fafc", clusterBorder |-> "#e2e8f0",
            edgeLabelBackground |-> "#ffffff", labelBackground |-> "#ffffff",
            noteBkgColor |-> "#f8fafc", noteBorderColor |-> "#e2e8f0",
            tertiaryColor |-> "#f1f5f9", tertiaryTextColor |-> "#0f172a",
            fontSize |-> "16px", edgeFontSize |-> "14px",
            nodeBorderRadius |-> 8, padding |-> 12 ] ],
    midnightBlue |->
      [ label |-> "Midnight Blue", base |-> "dark",
        variables |->
          [ background |-> "#0b1220", primaryColor |-> "#60a5fa",
            primaryTextColor |-> "#e5e7eb", primaryBorderColor |-> "#1f2a44",
            lineColor |-> "#64748b", textColor |-> "#e5e7eb",
            mainBkg |-> "#111827", nodeBorder |-> "#334155",
            clusterBkg |-> "#0f172a", clusterBorder |-> "#1f2937",
            edgeLabelBackground |-> "#111827", labelBackground |-> "#0b1220",
            noteBkgColor |-> "#0f172a", noteBorderColor |-> "#334155",
            tertiaryColor |-> "#1f2937", tertiaryTextColor |-> "#e5e7eb",
            fontSize |-> "16px", edgeFontSize |-> "14px",
            nodeBorderRadius |-> 8, padding |-> 12 ] ],
    emerald |->
      [ label |-> "Emerald", base |-> "neutral",
        variables |->
          [ background |-> "#ffffff", primaryColor |-> "#10b981",
            primaryTextColor |-> "#064e3b", primaryBorderColor |-> "#a7f3d0",
            lineColor |-> "#34d399", textColor |-> "#0f172a",
            mainBkg |-> "#ecfdf5", nodeBorder |-> "#a7f3d0",
            clusterBkg |-> "#f0fdf4", clusterBorder |-> "#a7f3d0",
            edgeLabelBackground |-> "#ffffff", labelBackground |-> "#ffffff",
            tertiaryColor |-> "#d1fae5", tertiaryTextColor |-> "#065f46",
            fontSize |-> "16px", edgeFontSize |-> "14px",
            nodeBorderRadius |-> 10, padding |-> 12 ] ],
    nord |->
      [ label |-> "Nord", base |-> "neutral",
        variables |->
          [ background |-> "#ECEFF4", primaryColor |-> "#5E81AC",
            primaryTextColor |-> "#2E3440", primaryBorderColor |-> "#81A1C1",
            lineColor |-> "#88C0D0", textColor |-> "#2E3440",
            mainBkg |-> "#E5E9F0", nodeBorder |-> "#D8DEE9",
            clusterBkg |-> "#E5E9F0", clusterBorder |-> "#D8DEE9",
            edgeLabelBackground |-> "#E5E9F0", labelBackground |-> "#ECEFF4",
            tertiaryColor |-> "#D8DEE9", tertiaryTextColor |-> "#2E3440",
            fontSize |-> "16px", edgeFontSize |-> "14px",
            nodeBorderRadius |-> 6, padding |-> 12 ] ] ]

\* { ...a, fontFamily: f }: the entries of a, with fontFamily set to f
WithFontFamily(a, f) ==
  [k \in DOMAIN a \cup {"fontFamily"} |-> IF k = "fontFamily" THEN f ELSE a[k]]

\* the empty object {}
EmptyObject == [k \in {} |-> Null]

\* the keys every object literal inherits from Object.prototype: the `in`
\* operator finds them in CUSTOM_THEMES although they are no presets
OBJECT_PROTOTYPE_KEYS ==
  { "constructor", "hasOwnProperty", "isPrototypeOf", "propertyIsEnumerable",
    "toLocaleString", "toString", "valueOf", "__proto__",
    "__defineGetter__", "__defineSetter__", "__lookupGetter__", "__lookupSetter__" }

\* the config useMemo: the render configuration of a theme key and a font.
\* `key in CUSTOM_THEMES` follows the prototype chain; an inherited member
\* has neither a base nor variables, so both reads give undefined and the
\* spread of undefined adds no entry.
Config(themeKey, fontFamily) ==
  LET isPreset == themeKey \in DOMAIN CUSTOM_THEMES
      isCustom == isPreset \/ themeKey \in OBJECT_PROTOTYPE_KEYS
      base     == IF isPreset THEN CUSTOM_THEMES[themeKey].base
                  ELSE IF isCustom THEN Undefined ELSE themeKey
      baseVars == IF isPreset THEN CUSTOM_THEMES[themeKey].variables ELSE EmptyObject
  IN  [ theme          |-> base,
        themeVariables |-> WithFontFamily(baseVars, fontFamily),
        securityLevel  |-> "strict",
        fontFamily     |-> fontFamily ]


\* the options of the Font select that the model's user picks from
ARIAL_FONT == "Arial, Helvetica, sans-serif"

(***************************************************************************)
(* Strings that hold numbers are sequences of characters, so that          *)
(* String(n) and Number(s) are computed, not assumed inverse.              *)
(***************************************************************************)
\* not-a-number: the rational with denominator 0
NaN == <<0, 0>>
IsFinite(v) == v[2] # 0
DigitChars == <<"0", "1", "2", "3", "4", "5", "6", "7", "8", "9">>
IsDigit(ch) == \E i \in 1..10 : DigitChars[i] = ch
DigitVal(ch) == (CHOOSE i \in 1..10 : DigitChars[i] = ch) - 1
AllDigits(s) == Len(s) > 0 /\ \A i \in 1..Len(s) : IsDigit(s[i])

RECURSIVE NatOfDigits(_)
NatOfDigits(s) ==
  IF s = <<>> THEN 0
  ELSE NatOfDigits(SubSeq(s, 1, Len(s) - 1)) * 10 + DigitVal(s[Len(s)])

RECURSIVE Pow10(_)
Pow10(k) == IF k = 0 THEN 1 ELSE 10 * Pow10(k - 1)

\* white space of a string: the WhiteSpace and LineTerminator code points
\* of ECMAScript, which trim(), Number(), parseFloat() and the \\s of a
\* regular expression share.  A character that has no escape in a string
\* of the model is written as its code point.
IsSpace(ch) ==
  ch \in { " ", "\t", "\n", "\r", "\f", "U+000B", "U+00A0", "U+FEFF", "U+1680",
           "U+2000", "U+2001", "U+2002", "U+2003", "U+2004", "U+2005", "U+2006",
           "U+2007", "U+2008", "U+2009", "U+200A", "U+2028", "U+2029", "U+202F",
           "U+205F", "U+3000" }

RECURSIVE TrimLeft(_)
TrimLeft(s) == IF s # <<>> /\ IsSpace(s[1]) THEN TrimLeft(Tail(s)) ELSE s

RECURSIVE TrimRight(_)
TrimRight(s) ==
  IF s # <<>> /\ IsSpace(s[Len(s)]) THEN TrimRight(SubSeq(s, 1, Len(s) - 1)) ELSE s

\* s.trim()
Trim(s) == TrimRight(TrimLeft(s))

\* the number of decimal digits of s from position i on
RECURSIVE DigitRun(_, _)
DigitRun(s, i) ==
  IF i <= Len(s) /\ IsDigit(s[i]) THEN 1 + DigitRun(s, i + 1) ELSE 0

\* Infinity, as a value of the model: a positive numerator over 0
Infinity == <<1, 0>>

\* s reads q from position i on
StartsWithAt(s, i, q) ==
  i + Len(q) - 1 <= Len(s) /\ SubSeq(s, i, i + Len(q) - 1) = q

\* the longest StrDecimalLiteral s starts with: [+-] Infinity, or
\* [+-] digits [. digits] [(e|E) [+-] digits] with digits on at least one
\* side of the point; the exponent counts only when it has digits.  The
\* value is exact, so a text is within the model when its value is a
\* quotient of two 31-bit integers.
DecimalPrefix(s) ==
  LET Only(S) == CHOOSE x \in S : TRUE
      IsExp(m) == m + 1 <= Len(s) /\ s[m + 1] \in {"e", "E"}
      \* the value of the literal with sign sg, n1 digits, a point and
      \* fraction of pf characters, an exponent sign es and n3 digits of it
      Literal(sg, n1, pf, es, n3) ==
        LET m    == sg + n1 + pf
            int  == NatOfDigits(SubSeq(s, sg + 1, sg + n1))
            frac == NatOfDigits(SubSeq(s, sg + n1 + 2, m))
            mag  == RAdd(RInt(int), Rat(frac, Pow10(IF pf > 0 THEN pf - 1 ELSE 0)))
            exp  == NatOfDigits(SubSeq(s, m + 2 + es, m + 1 + es + n3))
        IN  [ ok    |-> n1 > 0 \/ pf > 1,
              len   |-> IF n3 > 0 THEN m + 1 + es + n3 ELSE m,
              value |-> Only({ IF sg = 1 /\ s[1] = "-" THEN Rat(-val[1], val[2]) ELSE val :
                               val \in { IF n3 = 0 THEN mag
                                         ELSE IF es = 1 /\ s[m + 2] = "-"
                                         THEN RDiv(mag, RInt(Pow10(exp)))
                                         ELSE RMul(mag, RInt(Pow10(exp))) } }) ]
      AfterMantissa(sg, n1, pf) ==
        Only({ Only({ Literal(sg, n1, pf, es, n3) :
                      n3 \in {IF IsExp(sg + n1 + pf) THEN DigitRun(s, sg + n1 + pf + 2 + es) ELSE 0} }) :
               es \in {IF IsExp(sg + n1 + pf) /\ sg + n1 + pf + 2 <= Len(s)
                          /\ s[sg + n1 + pf + 2] \in {"-", "+"} THEN 1 ELSE 0} })
      AfterSign(sg) ==
        Only({ Only({ AfterMantissa(sg, n1, pf) :
                      pf \in {IF sg + n1 + 1 <= Len(s) /\ s[sg + n1 + 1] = "."
                               THEN 1 + DigitRun(s, sg + n1 + 2) ELSE 0} }) :
               n1 \in {DigitRun(s, sg + 1)} })
  IN  Only({ IF StartsWithAt(s, sg + 1, <<"I", "n", "f", "i", "n", "i", "t", "y">>)
             THEN [ ok |-> TRUE, len |-> sg + 8,
                    value |-> IF s[1] = "-" THEN <<-1, 0>> ELSE Infinity ]
             ELSE AfterSign(sg) :
             sg \in {IF s # <<>> /\ s[1] \in {"-", "+"} THEN 1 ELSE 0} })

\* the digits of the bases a NonDecimalIntegerLiteral can have
RadixDigits ==
  <<"0", "1", "2", "3", "4", "5", "6", "7", "8", "9", "a", "b", "c", "d", "e", "f">>
RadixUpper == <<"A", "B", "C", "D", "E", "F">>

\* the value of ch as a digit, 16 when it is none
RadixVal(ch) ==
  IF \E i \in 1..16 : RadixDigits[i] = ch
  THEN (CHOOSE i \in 1..16 : RadixDigits[i] = ch) - 1
  ELSE IF \E i \in 1..6 : RadixUpper[i] = ch
  THEN (CHOOSE i \in 1..6 : RadixUpper[i] = ch) + 9
  ELSE 16

RECURSIVE NatOfRadix(_, _)
NatOfRadix(s, b) ==
  IF s = <<>> THEN 0
  ELSE NatOfRadix(SubSeq(s, 1, Len(s) - 1), b) * b + RadixVal(s[Len(s)])

\* a NonDecimalIntegerLiteral: 0x, 0o or 0b (either case) before at least
\* one digit of that base, without a sign
RadixLiteral(t) ==
  LET b == IF Len(t) < 3 \/ t[1] # "0" THEN 0
           ELSE IF t[2] \in {"x", "X"} THEN 16
           ELSE IF t[2] \in {"o", "O"} THEN 8
           ELSE IF t[2] \in {"b", "B"} THEN 2 ELSE 0
  IN  [ ok    |-> b > 0 /\ \A i \in 3..Len(t) : RadixVal(t[i]) < b,
        value |-> RInt(NatOfRadix(SubSeq(t, 3, Len(t)), b)) ]

\* Number(s): the whole trimmed text is a StrNumericLiteral; '' is 0; else NaN
Number(s) ==
  LET t == Trim(s)
      p == DecimalPrefix(t)
      r == RadixLiteral(t)
  IN  IF t = <<>> THEN RInt(0)
      ELSE IF r.ok THEN r.value
      ELSE IF p.ok /\ p.len = Len(t) THEN p.value ELSE NaN

\* parseFloat(s): the StrDecimalLiteral the text starts with, else NaN
ParseFloat(s) ==
  LET p == DecimalPrefix(TrimLeft(s))
  IN  IF p.ok THEN p.value ELSE NaN

RECURSIVE DigitsOfNat(_)
DigitsOfNat(n) ==
  IF n < 10 THEN <<DigitChars[n + 1]>>
  ELSE Append(DigitsOfNat(n \div 10), DigitChars[(n % 10) + 1])

\* String(k) for an integer k
StringOfInt(k) == IF k < 0 THEN <<"-">> \o DigitsOfNat(-k) ELSE DigitsOfNat(k)

\* String(b) for a boolean b
StringOfBool(b) == IF b THEN "true" ELSE "false"

(***************************************************************************)
(* The engine (mermaid), as the adapter sees it.                           *)
(***************************************************************************)
ValidCodes == {DEFAULT_CODE, "flowchart LR\n  A[Start] --> B"}
InvalidCodes == {"flowchart TD\n  A[Start --> B"}
ModelCodes == ValidCodes \cup InvalidCodes

\* mermaid.parse(code) resolves exactly for valid diagram source
Valid(c) == c \in ValidCodes

\* what mermaid.parse may reject with: an Error with a message, one with an
\* empty message, and a value that has no message at all
ParseErrors ==
  { [message |-> "Parse error on line 2", str |-> "Error: Parse error on line 2"],
    [message |-> "", str |-> "Error"],
    [message |-> Undefined, str |-> "[object Object]"] }

\* what mermaid.render may reject with after a successful validation
RenderErrors ==
  { [message |-> "Render failed", str |-> "Error: Render failed"],
    [message |-> "", str |-> "Error"],
    [message |-> Undefined, str |-> "render aborted"] }

\* the options handed to mermaid.initialize for a render configuration
InitializeOptions(config) ==
  [ startOnLoad    |-> FALSE,
    theme          |-> config.theme,
    themeVariables |-> config.themeVariables,
    securityLevel  |-> IF config.securityLevel \in {Null, Undefined}
                       THEN "strict" ELSE config.securityLevel,
    fontFamily     |-> config.fontFamily,
    htmlLabels     |-> FALSE,
    flowchart      |-> [htmlLabels |-> FALSE] ]

\* the markup mermaid.render(id, c) produces: drawn from the source under
\* the engine's global configuration, with HTML-flavoured <br> line breaks;
\* the <svg> element carries the id it was asked for
EngineSvg(c, engineCfg, id) ==
  [ id         |-> id,
    source     |-> c,
    theme      |-> engineCfg.theme,
    variables  |-> engineCfg.themeVariables,
    fontFamily |-> engineCfg.fontFamily,
    br         |-> "<br>" ]

\* the empty string '' where markup is expected
EmptySvg ==
  [id |-> 0, source |-> "", theme |-> "", variables |-> EmptyObject, fontFamily |-> "",
   br |-> ""]

\* mermaid's own configuration, before the first mermaid.initialize
EngineDefaults ==
  [ startOnLoad    |-> TRUE,
    theme          |-> "default",
    themeVariables |-> EmptyObject,
    securityLevel  |-> "strict",
    fontFamily     |-> "\"trebuchet ms\", verdana, arial, sans-serif",
    htmlLabels     |-> TRUE,
    flowchart      |-> [htmlLabels |-> TRUE] ]

\* svg.replace(/<br\b[^>]*>/gi, '<br/>')
Sanitize(markup) == [markup EXCEPT !.br = "<br/>"]

\* mutant: err?.message ?? 'Mermaid parse error' (an empty message is kept)
ParseFailureNullish(err) ==
  LET msg == IF err.message \in {Undefined, Null}
             THEN "Mermaid parse error" ELSE err.message
  IN  [message |-> msg, str |-> "Error: " \o msg]

\* err?.message || 'Mermaid parse error', wrapped in a new Error
ParseFailure(err) ==
  LET msg == IF err.message \in {Undefined, Null, ""}
             THEN "Mermaid parse error" ELSE err.message
  IN  [message |-> msg, str |-> "Error: " \o msg]

\* e?.message ?? String(e)
ErrorText(e) == IF e.message \in {Undefined, Null} THEN e.str ELSE e.message


(***************************************************************************)
(* The viewport fit computation.                                           *)
(***************************************************************************)
\* the debounce delay of the auto-update effect
DEBOUNCE_MS == 250
\* padTop = padBottom = padLeft = padRight
FIT_PAD == 16

\* what the preview pane holds for a committed (svg, error): the error panel
\* replaces .preview__inner; '' injects no <svg> element
Dom(svgState, errorState) ==
  [ inner |-> errorState \in {Null, ""},
    svgEl |-> IF errorState \in {Null, ""} THEN svgState ELSE EmptySvg ]

\* getBoundingClientRect of the injected <svg> with the transform removed:
\* the intrinsic box the engine lays the diagram out in
SvgRect(markup) ==
  IF markup.source = DEFAULT_CODE THEN [width |-> 400, height |-> 600]
  ELSE [width |-> 600, height |-> 100]

\* the browser lays boxes out in whole layout units, this many to a pixel
LAYOUT_UNITS == 64

\* the width of the left pane in layout units: its flex basis is the
\* percentage pct of <main>'s width, pct being the double written into the
\* style, taken to the nearest unit.  Where the exact percentage falls
\* half-way between two units the double decides; everywhere else it is
\* too near to the exact percentage to change the unit.
LeftUnits(main, pct) ==
  LET u == RDiv(RMul(pct.a, RInt(main.width * LAYOUT_UNITS)), RInt(100))
      h == RMul(u, RInt(2))
  IN  IF h[2] = 1 /\ h[1] % 2 = 1
      THEN (IF \E v \in {pct.x} : DGe(v, pct.a) THEN (h[1] + 1) \div 2 ELSE (h[1] - 1) \div 2)
      ELSE RRound(u)

\* getBoundingClientRect of the preview container: the right pane, which
\* takes what the left pane's flex basis of leftPct% leaves of <main>; its
\* lengths are whole layout units, which a double holds exactly
WrapRect(main, pct) ==
  [ width  |-> Rat(main.width * LAYOUT_UNITS - LeftUnits(main, pct), LAYOUT_UNITS),
    height |-> RInt(main.height) ]

\* availW, availH: the container's box less the padding on both sides
Avail(wrapRect) ==
  [ width  |-> RMax(RInt(0), RSub(wrapRect.width, RInt(2 * FIT_PAD))),
    height |-> RMax(RInt(0), RSub(wrapRect.height, RInt(2 * FIT_PAD))) ]

\* a scale: the double x the program holds and the rational a it was
\* rounded from
Scale(a) == [a |-> a, x |-> Fl(a)]
\* the literals 0.1, 0.2, 1 and 3
TENTH == Scale(Rat(1, 10))
FIFTH == Scale(Rat(2, 10))
ONE == Scale(RInt(1))
THREE == Scale(RInt(3))

\* a / b of two doubles that hold the rationals a and b exactly, b # 0:
\* the double nearest to the quotient
Quotient(a, b) == Scale(RDiv(a, b))

\* Math.min and Math.max of two scales: their doubles are compared
ScaleMin(p, q) == IF DLt(q.x, p.x) THEN q ELSE p
ScaleMax(p, q) == IF DLt(p.x, q.x) THEN q ELSE p

\* mutant: the ratios are taken the wrong way round (intrinsic / available)
RawScaleInverted(wrapRect, svgRect) ==
  LET scaleX == IF Avail(wrapRect).width # RInt(0)
                THEN Quotient(RInt(svgRect.width), Avail(wrapRect).width) ELSE ONE
      scaleY == IF Avail(wrapRect).height # RInt(0)
                THEN Quotient(RInt(svgRect.height), Avail(wrapRect).height) ELSE ONE
  IN  CHOOSE s \in {ScaleMin(p, q) : p \in {scaleX}, q \in {scaleY}} : TRUE

\* mutant: the larger of the two ratios is taken
RawScaleMax(wrapRect, svgRect) ==
  LET scaleX == IF svgRect.width # 0
                THEN Quotient(Avail(wrapRect).width, RInt(svgRect.width)) ELSE ONE
      scaleY == IF svgRect.height # 0
                THEN Quotient(Avail(wrapRect).height, RInt(svgRect.height)) ELSE ONE
  IN  CHOOSE s \in {ScaleMax(p, q) : p \in {scaleX}, q \in {scaleY}} : TRUE

\* Math.min(scaleX, scaleY) of computeFitScale, before it is clamped: each
\* ratio is the quotient of two doubles, rounded to a double
RawScale(wrapRect, svgRect) ==
  LET availW == RMax(RInt(0), RSub(wrapRect.width, RInt(2 * FIT_PAD)))
      availH == RMax(RInt(0), RSub(wrapRect.height, RInt(2 * FIT_PAD)))
      scaleX == IF svgRect.width # 0 THEN Quotient(availW, RInt(svgRect.width)) ELSE ONE
      scaleY == IF svgRect.height # 0 THEN Quotient(availH, RInt(svgRect.height)) ELSE ONE
  IN  CHOOSE s \in {ScaleMin(p, q) : p \in {scaleX}, q \in {scaleY}} : TRUE

\* mutant: the scale is stored without the clamp
FitScaleUnclamped(wrapRect, svgRect) == RawScale(wrapRect, svgRect)

\* the scale computeFitScale stores, a double:
\* Math.max(0.1, Math.min(3, Math.min(scaleX, scaleY)))
FitScale(wrapRect, svgRect) ==
  CHOOSE s \in {ScaleMax(TENTH, ScaleMin(THREE, raw)) :
                  raw \in {RawScale(wrapRect, svgRect)}} : TRUE

\* computeFitScale of a render whose closure holds fitToViewport = fit, run
\* against the document dom and the container box wrapRect: the next zoom
ComputeFitScale(fit, dom, wrapRect, z) ==
  IF ~fit THEN z
  ELSE IF ~dom.inner \/ dom.svgEl = EmptySvg THEN z
  ELSE FitScale(wrapRect, SvgRect(dom.svgEl))

(***************************************************************************)
(* State.                                                                  *)
(***************************************************************************)
VARIABLES
  \* useState cells of App, each holding the value set last
  code, theme, font, autoUpdate, fitToViewport, svg, error, zoom, leftPct, dragging,
  \* the svg and error of the render React committed last: what the preview
  \* shows and what the handlers on screen close over
  screen,
  \* the effects of that render that have not run yet (useEffect callbacks
  \* run in a task after the commit): the split's persistence effect and
  \* the resize effect
  passive,
  \* localStorage: the five merViz keys (Null: absent)
  storage,
  \* mermaidClient's flag and mermaid's global configuration
  initialized, engineConfig,
  \* pending setTimeout callbacks, the id the effect's cleanup holds (0: none),
  \* and the number of setTimeout calls so far
  timers, timerId, scheduled,
  \* renderMermaid calls in flight, and how many were started / have settled
  calls, issued, completed,
  \* the resize effect: observer and listener attached, a notification queued
  observing, roPending,
  \* the closures of the splitter's window listeners, one per pointer down
  \* since the last pointer up, in the order they were added
  drag,
  \* the box of <main>
  mainRect,
  \* the clock
  now,
  \* history: the last event, counters of the bounds, the times of the changes
  \* of the current debounce burst, the debounced renders it fired,
  \* the render started last and the render settled last (<<>>: none yet),
  \* the latter with what mermaid threw and what the preview held before it
  lastEvent, edits, views, burst, fired, lastStart, lastDone,
  \* the editor: whether the textarea has input focus, its selection
  \* [start, end), and (history) the text last handed to focusEditorAtText
  focused, selection, lastLabel,
  \* the canvas of the last raster export (<<>>: none yet)
  png,
  \* the export menu: whether it is open, and (history) the last download
  \* the menu started (<<>>: none yet)
  exportOpen, lastExport

editVars == <<code, theme, font, autoUpdate>>
appVars == <<editVars, storage>>
resultVars == <<svg, error, screen, completed, lastDone>>
engineVars == <<initialized, engineConfig>>
timerVars == <<timers, timerId, scheduled, burst, fired>>
callVars == <<calls, issued, lastStart>>
paneVars == <<fitToViewport, zoom, leftPct, dragging, drag, mainRect>>
viewVars == <<paneVars, observing, roPending>>
auxVars == <<focused, selection, lastLabel, png, exportOpen, lastExport>>
vars == <<appVars, resultVars, engineVars, timerVars, callVars, viewVars,
          passive, now, lastEvent, edits, views, auxVars>>

\* what a handler created at a render of App closes over
Closure(c, k, f) == [code |-> c, config |-> k, fit |-> f]

\* the closure of the render that is on screen
CurrentClosure == Closure(code, Config(theme, font), fitToViewport)

\* the document on screen, the split it is laid out with (the double
\* written into the left pane's flex basis), whether the screen shows the
\* cells as set last, and whether it shows the split set last
Document == Dom(screen.svg, screen.error)
Layout == screen.leftPct
Committed == screen = [svg |-> svg, error |-> error, leftPct |-> leftPct]
SplitCommitted == screen.leftPct = leftPct

\* no effect is pending
NoEffects == [split |-> FALSE, resize |-> FALSE]

\* truthiness of the svg and error cells
SvgPopulated == svg # EmptySvg
ErrorPopulated == error \notin {Null, ""}

(***************************************************************************)
(* Startup: the state initializers and the first run of every effect.      *)
(***************************************************************************)
ModelThemes == {"default", "midnightBlue"}
ModelFonts == {DEFAULT_FONT, ARIAL_FONT}

\* the stores the program is started on: an empty one and a written one
InitialStores ==
  { [diagram |-> Null, theme |-> Null, autoupdate |-> Null, font |-> Null,
     split |-> <<>>, hasSplit |-> FALSE],
    [diagram |-> "flowchart LR\n  A[Start] --> B", theme |-> "midnightBlue",
     autoupdate |-> "false", font |-> ARIAL_FONT,
     split |-> <<"3", "5">>, hasSplit |-> TRUE] }

\* getItem('merViz.diagram.v1') ?? DEFAULT_CODE
InitialCode(st) == IF st.diagram = Null THEN DEFAULT_CODE ELSE st.diagram
InitialTheme(st) == IF st.theme \in {Null, ""} THEN "default" ELSE st.theme
InitialAutoUpdate(st) == st.autoupdate # "false"
InitialFont(st) == IF st.font \in {Null, ""} THEN DEFAULT_FONT ELSE st.font
\* a split: the double x the program holds and the rational a it stands
\* for; the two limits of the split
Pct(a) == [a |-> a, x |-> Fl(a)]
MinPct == Pct(RInt(20))
MaxPct == Pct(RInt(80))

InitialLeftPct(st) ==
  LET v == Number(IF st.hasSplit THEN st.split ELSE <<"5", "0">>)
  IN  IF IsFinite(v) THEN Pct(RMin(RInt(80), RMax(RInt(20), v))) ELSE Pct(RInt(50))

\* the persistence effects: every key written from its state
Persisted(c, t, a, f, pct) ==
  [ diagram |-> c, theme |-> t, autoupdate |-> StringOfBool(a), font |-> f,
    split |-> StringOfInt(MathRound(pct.x, pct.a)), hasSplit |-> TRUE ]

\* mutant: the effect's cleanup clears nothing
ClearNothing(ts, id) == ts

\* clearTimeout(id)
ClearTimeout(ts, id) == {t \in ts : t.id # id}

\* the boxes <main> takes in the model
MainRects == { [left |-> 0, width |-> 1000, height |-> 400],
               [left |-> 0, width |-> 1600, height |-> 900] }

\* the state after mounting on the store st in a window where <main> has
\* the box r
InitWith(st, r) ==
    /\ code = InitialCode(st)
    /\ theme = InitialTheme(st)
    /\ font = InitialFont(st)
    /\ autoUpdate = InitialAutoUpdate(st)
    /\ leftPct = InitialLeftPct(st)
    /\ svg = EmptySvg
    /\ error = Null
    /\ screen = [svg |-> EmptySvg, error |-> Null, leftPct |-> leftPct]
    /\ passive = NoEffects
    /\ zoom = ONE
    /\ fitToViewport = TRUE
    /\ dragging = FALSE
    /\ drag = <<>>
    /\ storage = Persisted(code, theme, autoUpdate, font, leftPct)
    /\ initialized = FALSE
    /\ engineConfig = EngineDefaults
    \* the debounce effect's first run
    /\ timers = IF autoUpdate
                THEN {[id |-> 1, due |-> DEBOUNCE_MS,
                       closure |-> Closure(code, Config(theme, font), TRUE)]}
                ELSE {}
    /\ timerId = IF autoUpdate THEN 1 ELSE 0
    /\ scheduled = IF autoUpdate THEN 1 ELSE 0
    /\ burst = IF autoUpdate THEN <<0>> ELSE <<>>
    /\ fired = <<>>
    /\ calls = {}
    /\ issued = 0
    /\ completed = 0
    \* the resize effect's first run: fit mode is on
    /\ observing = TRUE
    /\ roPending = TRUE
    /\ mainRect = r
    /\ now = 0
    /\ lastEvent = "mount"
    /\ edits = 0
    /\ views = 0
    /\ lastStart = <<>>
    /\ lastDone = <<>>
    /\ focused = FALSE
    /\ selection = <<0, 0>>
    /\ lastLabel = <<>>
    /\ png = <<>>
    /\ exportOpen = FALSE
    /\ lastExport = <<>>

\* the box of <main> the model starts with unless stated otherwise
DefaultRect == [left |-> 0, width |-> 1000, height |-> 400]

InitFrom(st) == InitWith(st, DefaultRect)

Init == \E st \in InitialStores : InitFrom(st)


(***************************************************************************)
(* Effects.                                                                *)
(***************************************************************************)
\* mutant: the effect lacks its `if (!autoUpdate) return`
DebounceEffectUnguarded(auto, cl) ==
  /\ fired' = <<>>
  /\ timers' = ClearTimeout(timers, timerId) \cup
       {[id |-> scheduled + 1, due |-> now + DEBOUNCE_MS, closure |-> cl]}
  /\ timerId' = scheduled + 1
  /\ scheduled' = scheduled + 1
  /\ burst' = (IF timers = {} THEN <<>> ELSE burst) \o <<now>>

\* the debounce effect, re-run because code, config or autoUpdate changed:
\* the previous run's cleanup, then a new timer holding the closure cl of
\* the new render when auto-update is on
DebounceEffect(auto, cl) ==
  LET cleared == ClearTimeout(timers, timerId)
  IN  /\ fired' = <<>>
      /\ IF auto
         THEN /\ timers' = cleared \cup
                   {[id |-> scheduled + 1, due |-> now + DEBOUNCE_MS, closure |-> cl]}
              /\ timerId' = scheduled + 1
              /\ scheduled' = scheduled + 1
              /\ burst' = (IF timers = {} THEN <<>> ELSE burst) \o <<now>>
         ELSE /\ timers' = cleared
              /\ timerId' = 0
              /\ scheduled' = scheduled
              /\ burst' = <<>>

\* mutant: the effect depends on fitToViewport alone, so a new graphic does
\* not re-attach the observer
ResizeEffectOnFitOnly(fit) ==
  /\ observing' = fit
  /\ roPending' = IF fit # fitToViewport THEN fit ELSE roPending

\* the resize effect, re-run because fitToViewport or svg changed: the old
\* observer is disconnected; in fit mode a new one observes the container,
\* which queues its first notification
ResizeEffect(fit) ==
  /\ observing' = fit
  /\ roPending' = fit

\* the store st after React ran the pending persistence effect of the
\* split, which it does before it renders again (render): the effect
\* belongs to the render on screen and writes that render's split
SplitPersisted(st, render) ==
  IF render /\ passive.split
  THEN [st EXCEPT !.split = StringOfInt(MathRound(screen.leftPct.x, screen.leftPct.a))]
  ELSE st

\* the pending resize effect, run before React renders again (render)
PendingResize(render) ==
  IF render /\ passive.resize THEN ResizeEffect(fitToViewport)
  ELSE UNCHANGED <<observing, roPending>>

\* what is left pending after a handler: a handler that set a cell in a
\* discrete event (a click, a change, a pointer press or release, a
\* window resize) makes React render before the event's task ends, and
\* React runs the pending effects first.  That holds also when the cell was
\* set to the value it has: effects are pending right after a commit, and
\* then React cannot drop the update without rendering.
FlushPassive(render) ==
  /\ PendingResize(render)
  /\ storage' = SplitPersisted(storage, render)
  /\ passive' = IF render THEN NoEffects ELSE passive

\* the task React scheduled for the effects of a commit runs them
Effects ==
  /\ passive # NoEffects
  /\ FlushPassive(TRUE)
  /\ lastEvent' = "effects"
  /\ UNCHANGED <<auxVars, editVars, resultVars, engineVars, timerVars, callVars,
                 paneVars, now, edits, views>>

(***************************************************************************)
(* Edits.                                                                  *)
(***************************************************************************)
SetCode(c) ==
  /\ edits < MaxEdits
  /\ c # code
  /\ code' = c
  /\ storage' = [SplitPersisted(storage, TRUE) EXCEPT !.diagram = c]
  /\ PendingResize(TRUE)
  /\ passive' = NoEffects
  /\ DebounceEffect(autoUpdate, Closure(c, Config(theme, font), fitToViewport))
  /\ lastEvent' = "setCode"
  /\ edits' = edits + 1
  /\ UNCHANGED <<auxVars, theme, font, autoUpdate, resultVars, engineVars, callVars,
                 paneVars, now, views>>

SetTheme(t) ==
  /\ edits < MaxEdits
  /\ t # theme
  /\ theme' = t
  /\ storage' = [SplitPersisted(storage, TRUE) EXCEPT !.theme = t]
  /\ PendingResize(TRUE)
  /\ passive' = NoEffects
  /\ DebounceEffect(autoUpdate, Closure(code, Config(t, font), fitToViewport))
  /\ lastEvent' = "setTheme"
  /\ edits' = edits + 1
  /\ UNCHANGED <<auxVars, code, font, autoUpdate, resultVars, engineVars, callVars,
                 paneVars, now, views>>

SetFont(f) ==
  /\ edits < MaxEdits
  /\ f # font
  /\ font' = f
  /\ storage' = [SplitPersisted(storage, TRUE) EXCEPT !.font = f]
  /\ PendingResize(TRUE)
  /\ passive' = NoEffects
  /\ DebounceEffect(autoUpdate, Closure(code, Config(theme, f), fitToViewport))
  /\ lastEvent' = "setFont"
  /\ edits' = edits + 1
  /\ UNCHANGED <<auxVars, code, theme, autoUpdate, resultVars, engineVars, callVars,
                 paneVars, now, views>>

SetAutoUpdate(b) ==
  /\ edits < MaxEdits
  /\ b # autoUpdate
  /\ autoUpdate' = b
  /\ storage' = [SplitPersisted(storage, TRUE) EXCEPT !.autoupdate = StringOfBool(b)]
  /\ PendingResize(TRUE)
  /\ passive' = NoEffects
  /\ DebounceEffect(b, CurrentClosure)
  /\ lastEvent' = "setAutoUpdate"
  /\ edits' = edits + 1
  /\ UNCHANGED <<auxVars, code, theme, font, resultVars, engineVars, callVars,
                 paneVars, now, views>>

(***************************************************************************)
(* renderMermaid and doRender.                                             *)
(***************************************************************************)
\* mermaid.initialize(options): the options given replace the engine's
MermaidInitialize(engineCfg, options) ==
  [k \in DOMAIN engineCfg |-> IF k \in DOMAIN options THEN options[k] ELSE engineCfg[k]]

\* init(config): mermaid.initialize once, with the first configuration seen
InitOnce(isInit, engineCfg, config) ==
  IF isInit THEN engineCfg ELSE MermaidInitialize(engineCfg, InitializeOptions(config))

\* renderMermaid up to its first await: init, mermaid.initialize with the
\* call's configuration, mermaid.parse requested.  The call records the
\* engine's global configuration at each request it makes of the engine, and
\* whether a debounce timer started it.
StartRender(cl, byTimer) ==
  LET afterInit == InitOnce(initialized, engineConfig, cl.config)
      afterSet  == MermaidInitialize(afterInit, InitializeOptions(cl.config))
      call      == [seq |-> issued + 1, closure |-> cl, seen |-> <<afterSet>>,
                    debounced |-> byTimer]
  IN  /\ issued < MaxRenders
      /\ initialized' = TRUE
      /\ engineConfig' = afterSet
      /\ calls' = calls \cup {call}
      /\ issued' = issued + 1
      /\ lastStart' = <<[seq |-> issued + 1, code |-> cl.code, config |-> cl.config]>>

\* the closure the Render button's onClick={doRender} runs
ButtonClosure == CurrentClosure

\* mutant: the button renders only while auto-update is enabled
ManualRenderWhenAuto ==
  /\ IF autoUpdate THEN StartRender(ButtonClosure, FALSE)
     ELSE UNCHANGED <<engineVars, callVars>>
  /\ lastEvent' = "manualRender"
  /\ UNCHANGED <<passive, auxVars, appVars, resultVars, timerVars, viewVars, now, edits, views>>

\* mutant: the button clears the pending debounce timer
ManualRenderCancels ==
  /\ StartRender(ButtonClosure, FALSE)
  /\ timers' = ClearTimeout(timers, timerId)
  /\ lastEvent' = "manualRender"
  /\ UNCHANGED <<passive, auxVars, appVars, resultVars, timerId, scheduled, burst, fired,
                 viewVars, now, edits, views>>

\* the Render button
ManualRender ==
  /\ StartRender(ButtonClosure, FALSE)
  /\ lastEvent' = "manualRender"
  /\ UNCHANGED <<passive, auxVars, appVars, resultVars, timerVars, viewVars, now, edits, views>>

\* a debounce timer that is due runs doRender of the render that set it
TimerFire ==
  \E t \in timers :
    /\ t.due <= now
    /\ StartRender(t.closure, TRUE)
    /\ timers' = timers \ {t}
    /\ fired' = Append(fired, [at |-> now, due |-> t.due, code |-> t.closure.code,
                                config |-> t.closure.config])
    /\ lastEvent' = "timerFired"
    /\ UNCHANGED <<passive, auxVars, appVars, resultVars, timerId, scheduled, burst, viewVars,
                   now, edits, views>>

\* time passes: by a step of the clock, or up to the due time of a pending
\* timer within that step.  A timer that is due runs when the event loop
\* comes to it, so the clock may pass its due time while it is pending.
Tick ==
  LET whole == IF MaxTime - now < TickStep THEN MaxTime - now ELSE TickStep
  IN  \E step \in {whole} \cup {t.due - now : t \in timers} :
        /\ step > 0
        /\ step <= whole
        /\ now' = now + step
        /\ lastEvent' = "tick"
        /\ UNCHANGED <<passive, auxVars, appVars, resultVars, engineVars, timerVars, callVars,
                       viewVars, edits, views>>

\* time passes until the next pending timer is due, and by a step of the
\* clock when it is due already and has not run yet
Elapse ==
  /\ timers # {}
  /\ \E t \in timers :
       /\ \A u \in timers : t.due <= u.due
       /\ now' = IF t.due > now THEN t.due ELSE now + TickStep
       /\ now' <= MaxTime
  /\ lastEvent' = "tick"
  /\ UNCHANGED <<passive, auxVars, appVars, resultVars, engineVars, timerVars, callVars,
                 viewVars, edits, views>>

\* mermaid.parse resolved: the call goes on to request mermaid.render
ParseOk(c) ==
  /\ Len(c.seen) = 1
  /\ Valid(c.closure.code)
  /\ calls' = (calls \ {c}) \cup {[c EXCEPT !.seen = Append(@, engineConfig)]}
  /\ lastEvent' = "parsed"
  /\ UNCHANGED <<passive, auxVars, appVars, resultVars, engineVars, timerVars, issued, lastStart,
                 viewVars, now, edits, views>>

\* the zoom after the computeFitScale a .then handler queues as a
\* microtask: it runs right after the handler, before React commits the
\* cells the handler set, so it measures the document still on screen
FitAfterRender(fit) ==
  ComputeFitScale(fit, Document, WrapRect(mainRect, Layout), zoom)

\* mutant: a result is dropped when a newer render was started meanwhile
ThenUnlessSuperseded(c, res) ==
  /\ IF c.seq < issued
     THEN UNCHANGED <<svg, error, zoom>>
     ELSE /\ svg' = res
          /\ error' = Null
          /\ zoom' = FitAfterRender(c.closure.fit)
  /\ calls' = calls \ {c}
  /\ completed' = completed + 1
  /\ lastDone' = <<[seq |-> c.seq, closure |-> c.closure, debounced |-> c.debounced,
                    requests |-> Len(c.seen), thrown |-> Undefined,
                    svg |-> res, error |-> Null, replaced |-> Document]>>
  /\ UNCHANGED <<passive, screen, observing, roPending>>

\* .then of doRender for the call c that resolved with res: the cells are
\* set, and the queued computeFitScale runs
Then(c, res) ==
  /\ svg' = res
  /\ error' = Null
  /\ zoom' = FitAfterRender(c.closure.fit)
  /\ calls' = calls \ {c}
  /\ completed' = completed + 1
  /\ lastDone' = <<[seq |-> c.seq, closure |-> c.closure, debounced |-> c.debounced,
                    requests |-> Len(c.seen), thrown |-> Undefined,
                    svg |-> res, error |-> Null, replaced |-> Document]>>
  /\ UNCHANGED <<passive, screen, observing, roPending>>

\* mutant: the handler stores the message and leaves the graphic in place
CatchKeepsGraphic(c, e, thrown) ==
  /\ error' = ErrorText(e)
  /\ UNCHANGED <<svg, zoom>>
  /\ calls' = calls \ {c}
  /\ completed' = completed + 1
  /\ lastDone' = <<[seq |-> c.seq, closure |-> c.closure, debounced |-> c.debounced,
                    requests |-> Len(c.seen), thrown |-> thrown,
                    svg |-> EmptySvg, error |-> ErrorText(e), replaced |-> Document]>>
  /\ UNCHANGED <<passive, screen, observing, roPending>>

\* .catch of doRender for the call c that rejected with e
Catch(c, e, thrown) ==
  /\ svg' = EmptySvg
  /\ error' = ErrorText(e)
  /\ calls' = calls \ {c}
  /\ completed' = completed + 1
  /\ lastDone' = <<[seq |-> c.seq, closure |-> c.closure, debounced |-> c.debounced,
                    requests |-> Len(c.seen), thrown |-> thrown,
                    svg |-> EmptySvg, error |-> ErrorText(e), replaced |-> Document]>>
  /\ UNCHANGED <<passive, zoom, screen, observing, roPending>>

\* React renders App with the cells a settled render or a pointer move
\* set and commits the result: the preview shows them and the panes are
\* laid out with the split.  The handlers set the cells outside a React
\* event, so the commit is a task of its own, after every handler and
\* microtask of the task that set them.  Before it renders React runs the
\* effects still pending from the commit before; the effects with a
\* dependency this commit changed (the split: its persistence effect, the
\* graphic: the resize effect) are left pending for a later task.  The
\* layout follows the commit: with another split the container's box is
\* another one, of which the attached observer is notified.
Commit ==
  /\ ~Committed
  /\ screen' = [svg |-> svg, error |-> error, leftPct |-> leftPct]
  /\ passive' = [split |-> leftPct # screen.leftPct, resize |-> svg # screen.svg]
  /\ storage' = SplitPersisted(storage, TRUE)
  /\ IF passive.resize THEN ResizeEffect(fitToViewport)
     ELSE /\ roPending' = IF leftPct # screen.leftPct THEN observing ELSE roPending
          /\ UNCHANGED observing
  /\ lastEvent' = "commit"
  /\ UNCHANGED <<auxVars, editVars, svg, error, completed, lastDone, engineVars,
                 timerVars, callVars, paneVars, now, edits, views>>

\* mermaid.parse rejected with err: renderMermaid throws, doRender catches
ParseFail(c, err) ==
  /\ Len(c.seen) = 1
  /\ ~Valid(c.closure.code)
  /\ Catch(c, ParseFailure(err), err.message)
  /\ lastEvent' = "renderFailed"
  /\ UNCHANGED <<auxVars, appVars, engineVars, timerVars, issued, lastStart,
                 fitToViewport, leftPct, dragging, drag, mainRect, now, edits, views>>

\* the id 'merviz-' + Math.random().toString(36).slice(2) of a call: every
\* call makes up one of its own, which the call's number stands for
RenderId(c) == c.seq

\* mermaid.render resolved: the markup is sanitized and returned
RenderOk(c) ==
  /\ Len(c.seen) = 2
  /\ Then(c, Sanitize(EngineSvg(c.closure.code, c.seen[2], RenderId(c))))
  /\ lastEvent' = "rendered"
  /\ UNCHANGED <<auxVars, appVars, engineVars, timerVars, issued, lastStart,
                 fitToViewport, leftPct, dragging, drag, mainRect, now, edits, views>>

\* mermaid.render rejected with e
RenderFail(c, e) ==
  /\ Len(c.seen) = 2
  /\ Catch(c, e, e.message)
  /\ lastEvent' = "renderFailed"
  /\ UNCHANGED <<auxVars, appVars, engineVars, timerVars, issued, lastStart,
                 fitToViewport, leftPct, dragging, drag, mainRect, now, edits, views>>


(***************************************************************************)
(* The viewport: fit mode, zoom buttons, resizes, the splitter.            *)
(***************************************************************************)
\* the Fit checkbox: React renders and runs the effects at once, those
\* still pending first: the resize effect re-runs, and on switching to fit
\* mode the new render's computeFitScale runs once
SetFitToViewport(b) ==
  /\ views < MaxViews
  /\ b # fitToViewport
  /\ fitToViewport' = b
  /\ ResizeEffect(b)
  /\ storage' = SplitPersisted(storage, TRUE)
  /\ passive' = NoEffects
  /\ zoom' = ComputeFitScale(b, Document, WrapRect(mainRect, Layout), zoom)
  /\ lastEvent' = "setFit"
  /\ views' = views + 1
  /\ UNCHANGED <<auxVars, editVars, resultVars, engineVars, timerVars, callVars,
                 leftPct, dragging, drag, mainRect, now, edits>>

\* (z + 0.1).toFixed(2) for the scale z: the sum of the two doubles,
\* rounded to a double, and the hundredth its decimal expansion rounds to
PlusTenth(z) == ToFixed2(DAdd(z.x, TENTH.x), RAdd(z.a, Rat(1, 10)))

\* (z - 0.1).toFixed(2), likewise
MinusTenth(z) ==
  IF ~DLt(z.x, TENTH.x)
  THEN ToFixed2(DSub(z.x, TENTH.x), RSub(z.a, Rat(1, 10)))
  ELSE RNeg(ToFixed2(DSub(TENTH.x, z.x), RSub(Rat(1, 10), z.a)))

\* setZoom(z => Math.min(3, +(z + 0.1).toFixed(2))): the unary + reads the
\* hundredth as the double nearest to it, as Scale does, and the smaller
\* of two such doubles is the one of the smaller number
ZoomInStep(z) == Scale(RMin(RInt(3), PlusTenth(z)))
\* mutant: the - button has no lower bound
ZoomOutStepUnbounded(z) == Scale(MinusTenth(z))

\* setZoom(z => Math.max(0.2, +(z - 0.1).toFixed(2)))
ZoomOutStep(z) == Scale(RMax(Rat(2, 10), MinusTenth(z)))

\* the + button (disabled in fit mode): setZoom is called, so React renders
ZoomIn ==
  /\ views < MaxSteps
  /\ ~fitToViewport
  /\ \E z \in {ZoomInStep(zoom)} :
       /\ zoom' = z
       /\ FlushPassive(TRUE)
  /\ lastEvent' = "zoomIn"
  /\ views' = views + 1
  /\ UNCHANGED <<auxVars, editVars, resultVars, engineVars, timerVars, callVars,
                 fitToViewport, leftPct, dragging, drag, mainRect, now, edits>>

\* the - button (disabled in fit mode)
ZoomOut ==
  /\ views < MaxSteps
  /\ ~fitToViewport
  /\ \E z \in {ZoomOutStep(zoom)} :
       /\ zoom' = z
       /\ FlushPassive(TRUE)
  /\ lastEvent' = "zoomOut"
  /\ views' = views + 1
  /\ UNCHANGED <<auxVars, editVars, resultVars, engineVars, timerVars, callVars,
                 fitToViewport, leftPct, dragging, drag, mainRect, now, edits>>

\* the Reset button (disabled in fit mode)
ResetZoom ==
  /\ views < MaxSteps
  /\ ~fitToViewport
  /\ zoom' = ONE
  /\ FlushPassive(TRUE)
  /\ lastEvent' = "resetZoom"
  /\ views' = views + 1
  /\ UNCHANGED <<auxVars, editVars, resultVars, engineVars, timerVars, callVars,
                 fitToViewport, leftPct, dragging, drag, mainRect, now, edits>>

\* computeFitScale of a render with fitToViewport = fit gets as far as
\* setZoom: the preview holds a graphic
SetsZoom(fit, dom) == fit /\ dom.inner /\ dom.svgEl # EmptySvg

\* a resize event of the window: the resize listener (attached in fit mode)
\* runs computeFitScale, whether or not <main>'s box is another one; the
\* observer is notified only when the observed container's box changes.
\* When the listener called setZoom React renders before the task ends,
\* and runs the pending effects first.
WindowResize(r) ==
  /\ views < MaxViews
  /\ mainRect' = r
  /\ zoom' = ComputeFitScale(observing, Document, WrapRect(r, Layout), zoom)
  /\ \E render \in {SetsZoom(observing, Document)} :
       /\ IF render /\ passive.resize THEN ResizeEffect(fitToViewport)
          ELSE /\ roPending' = IF r # mainRect THEN observing ELSE roPending
               /\ UNCHANGED observing
       /\ storage' = SplitPersisted(storage, render)
       /\ passive' = IF render THEN NoEffects ELSE passive
  /\ lastEvent' = "windowResize"
  /\ views' = views + 1
  /\ UNCHANGED <<auxVars, editVars, resultVars, engineVars, timerVars, callVars,
                 fitToViewport, leftPct, dragging, drag, now, edits>>

\* the container's box changes without a window resize
ContainerResize(r) ==
  /\ views < MaxViews
  /\ r # mainRect
  /\ mainRect' = r
  /\ roPending' = observing
  /\ lastEvent' = "containerResize"
  /\ views' = views + 1
  /\ UNCHANGED <<passive, auxVars, appVars, resultVars, engineVars, timerVars, callVars,
                 fitToViewport, zoom, leftPct, dragging, observing, drag, now, edits>>

\* the ResizeObserver delivers its notification: computeFitScale of the
\* render that attached it, which was in fit mode
ResizeObserved ==
  /\ observing
  /\ roPending
  /\ roPending' = FALSE
  /\ zoom' = ComputeFitScale(TRUE, Document, WrapRect(mainRect, Layout), zoom)
  /\ lastEvent' = "resizeObserved"
  /\ UNCHANGED <<passive, auxVars, appVars, resultVars, engineVars, timerVars, callVars,
                 fitToViewport, leftPct, dragging, observing, drag, mainRect,
                 now, edits, views>>

\* pointer down on the splitter: a pair of window listeners is added that
\* closes over the render on screen (its split is the listeners' first
\* latest) and over <main>'s box as it is now.  Nothing
\* tests whether a drag is already going on, so a second pointer down
\* before the pointer up adds a second pair.  The press also reaches the
\* window listener of the open export menu: the splitter is outside the
\* menu's wrapper, so the menu closes.  setDragging(true) is called at
\* every press, so React renders.
onSplitterDown ==
  /\ Len(drag) < MaxPointers
  /\ dragging' = TRUE
  /\ exportOpen' = FALSE
  /\ FlushPassive(TRUE)
  /\ drag' = Append(drag, [fit |-> fitToViewport, left |-> mainRect.left,
                           width |-> mainRect.width, latest |-> screen.leftPct])
  /\ lastEvent' = "splitterDown"
  /\ UNCHANGED <<focused, selection, lastLabel, png, lastExport, editVars, resultVars,
                 engineVars, timerVars, callVars, fitToViewport, zoom, leftPct,
                 mainRect, now, edits, views>>

\* (x / rect.width) * 100 for x > 0: the quotient is rounded to a double,
\* and so is its product with 100
RawPct(x, width) ==
  [a |-> RMul(Rat(x, width), RInt(100)),
   x |-> CHOOSE p \in {DTimes(q, 100) : q \in {Fl(Rat(x, width))}} : TRUE]

\* mutant: the percentage of the pointer position without Math.min(80, ..)
SplitPctUnclamped(clientX, rect) ==
  LET x == clientX - rect.left
  IN  IF x <= 0 THEN MinPct
      ELSE CHOOSE pct \in { IF ~DLt(MinPct.x, p.x) THEN MinPct ELSE p :
                              p \in {RawPct(x, rect.width)} } : TRUE

\* pct = Math.max(20, Math.min(80, (x / rect.width) * 100)): a pointer at
\* or left of the box gives a percentage of 0 or less, which becomes 20
SplitPct(clientX, rect) ==
  LET x == clientX - rect.left
  IN  IF x <= 0 THEN MinPct
      ELSE CHOOSE pct \in { IF ~DLt(p.x, MaxPct.x) THEN MaxPct
                              ELSE IF ~DLt(MinPct.x, p.x) THEN MinPct
                              ELSE p : p \in {RawPct(x, rect.width)} } : TRUE

\* the pointer positions of a drag: left of <main>, inside it (at 57.5% of
\* a <main> 1000 wide, where the double is below the half), right of it
PointerXs == {-40, 575, 1700}

\* the zoom after the computeFitScale calls of the listeners i..Len(ds),
\* each with the fit flag of its own render, all measuring the same layout
RECURSIVE FitWhileDragging(_, _, _, _, _)
FitWhileDragging(ds, i, dom, wrapRect, z) ==
  IF i > Len(ds) THEN z
  ELSE FitWhileDragging(ds, i + 1, dom, wrapRect,
                        ComputeFitScale(ds[i].fit, dom, wrapRect, z))

\* pointer move during a drag: every onMove listener runs, in the order of
\* the pointer downs: each takes the pointer's percentage of its own box,
\* keeps it as its latest, sets the split cell (the last set wins) and runs
\* its computeFitScale, which measures the panes as they are laid out: the
\* new split is laid out and persisted when React commits it
onMove(x) ==
  /\ views < MaxViews
  /\ drag # <<>>
  /\ \E pcts \in {SubSeq([i \in DOMAIN drag |-> SplitPct(x, drag[i])], 1, Len(drag))} :
       /\ leftPct' = pcts[Len(drag)]
       /\ drag' = [i \in DOMAIN drag |-> [drag[i] EXCEPT !.latest = pcts[i]]]
  /\ zoom' = FitWhileDragging(drag, 1, Document, WrapRect(mainRect, Layout), zoom)
  /\ lastEvent' = "splitterMove"
  /\ views' = views + 1
  /\ UNCHANGED <<passive, auxVars, appVars, resultVars, engineVars, timerVars, callVars,
                 fitToViewport, dragging, observing, roPending, mainRect, now, edits>>

\* pointer up: every onUp listener runs, in the order of the pointer downs:
\* each removes its pair, calls setDragging(false) and persists its latest
\* split; the drag ends.  React renders as soon as the first listener is
\* done, before the next one runs, and runs the pending effects first: a
\* persistence effect still pending writes the split on screen over the
\* first listener's write, and the writes of the further listeners come
\* after it (the last write stays).
onUp ==
  /\ drag # <<>>
  /\ dragging' = FALSE
  /\ drag' = <<>>
  /\ storage' = IF Len(drag) = 1
                THEN SplitPersisted([storage EXCEPT !.split =
                                       StringOfInt(MathRound(drag[1].latest.x,
                                                             drag[1].latest.a))], TRUE)
                ELSE [storage EXCEPT !.split =
                        StringOfInt(MathRound(drag[Len(drag)].latest.x,
                                              drag[Len(drag)].latest.a))]
  /\ PendingResize(TRUE)
  /\ passive' = NoEffects
  /\ lastEvent' = "splitterUp"
  /\ UNCHANGED <<auxVars, editVars, resultVars, engineVars, timerVars, callVars,
                 fitToViewport, zoom, leftPct, mainRect, now, edits, views>>


(***************************************************************************)
(* Double-click locate.  Texts are searched character by character: Chars  *)
(* gives the characters of a diagram text of the model, a label is given   *)
(* as its characters.  A character outside ASCII is written by its code    *)
(* point ("U+0130": capital I with dot above).                             *)
(***************************************************************************)
\* diagram texts for the locate action: lower- and upper-case variants of a
\* label, a text with a character whose lower case is two characters, a
\* text with capitals outside ASCII (E with acute accent) and a text with a
\* capital sigma before a small alpha and a final sigma
MIXED_CASE_CODE == "flowchart LR\n  a[end] --> b[End]"
DOTTED_I_CODE == "flowchart LR\n  U+0130[x] --> B[Go]"
ACCENT_CODE == "graph TD\n  A[U+00C9COLE]"
SIGMA_CODE == "flowchart LR\n  A[U+03A3U+03B1U+03C2] --> B"

\* the characters (UTF-16 code units) of a diagram text
Chars(c) ==
  CASE c = DEFAULT_CODE ->
    <<"f", "l", "o", "w", "c", "h", "a", "r", "t", " ", "T", "D", "\n", " ",
      " ", "A", "[", "S", "t", "a", "r", "t", "]", " ", "-", "-", ">",
      " ", "B", "{", "C", "o", "n", "d", "i", "t", "i", "o", "n", "?",
      "}", "\n", " ", " ", "B", " ", "-", "-", " ", "Y", "e", "s", " ",
      "-", "-", ">", " ", "C", "[", "D", "o", " ", "t", "h", "i", "n",
      "g", "]", "\n", " ", " ", "B", " ", "-", "-", " ", "N", "o", " ",
      "-", "-", ">", " ", "D", "[", "S", "o", "m", "e", "t", "h", "i",
      "n", "g", " ", "e", "l", "s", "e", "]", "\n", " ", " ", "C", " ",
      "-", "-", ">", " ", "E", "[", "E", "n", "d", "]", "\n", " ", " ",
      "D", " ", "-", "-", ">", " ", "E">>
    [] c = "flowchart LR\n  A[Start] --> B" ->
    <<"f", "l", "o", "w", "c", "h", "a", "r", "t", " ", "L", "R", "\n", " ",
      " ", "A", "[", "S", "t", "a", "r", "t", "]", " ", "-", "-", ">",
      " ", "B">>
    [] c = "flowchart TD\n  A[Start --> B" ->
    <<"f", "l", "o", "w", "c", "h", "a", "r", "t", " ", "T", "D", "\n", " ",
      " ", "A", "[", "S", "t", "a", "r", "t", " ", "-", "-", ">", " ", "B">>
    [] c = MIXED_CASE_CODE ->
    <<"f", "l", "o", "w", "c", "h", "a", "r", "t", " ", "L", "R", "\n", " ",
      " ", "a", "[", "e", "n", "d", "]", " ", "-", "-", ">", " ", "b",
      "[", "E", "n", "d", "]">>
    [] c = DOTTED_I_CODE ->
    <<"f", "l", "o", "w", "c", "h", "a", "r", "t", " ", "L", "R", "\n", " ",
      " ", "U+0130", "[", "x", "]", " ", "-", "-", ">", " ", "B", "[",
      "G", "o", "]">>
    [] c = ACCENT_CODE ->
    <<"g", "r", "a", "p", "h", " ", "T", "D", "\n", " ", " ", "A", "[",
      "U+00C9", "C", "O", "L", "E", "]">>
    [] c = SIGMA_CODE ->
    <<"f", "l", "o", "w", "c", "h", "a", "r", "t", " ", "L", "R", "\n", " ",
      " ", "A", "[", "U+03A3", "U+03B1", "U+03C2", "]", " ", "-", "-", ">",
      " ", "B">>
    [] c = "" -> <<>>

\* the characters of ASCII from the space (32) to the tilde (126) without
\* the grave accent (96), which a string of the model cannot hold and which
\* is written "U+0060"; and the digits of a code point
ASCII == " !\"#$%&'()*+,-./0123456789:;<=>?@ABCDEFGHIJKLMNOPQRSTUVWXYZ[\\]^_abcdefghijklmnopqrstuvwxyz{|}~"
HEX == "0123456789ABCDEF"

\* the UTF-16 code unit of a character of the model
UnitOf(ch) ==
  LET digit(k) == (CHOOSE i \in 1..16 : SubSeq(HEX, i, i) = SubSeq(ch, k, k)) - 1
  IN  IF Len(ch) = 6
      THEN 4096 * digit(3) + 256 * digit(4) + 16 * digit(5) + digit(6)
      ELSE CASE ch = "\t" -> 9
             [] ch = "\n" -> 10
             [] ch = "\f" -> 12
             [] ch = "\r" -> 13
             [] OTHER -> LET i == CHOOSE j \in 1..94 : SubSeq(ASCII, j, j) = ch
                         IN  IF i <= 64 THEN 31 + i ELSE 32 + i

\* the character of the model for a UTF-16 code unit
CharOf(n) ==
  LET digit(k) == SubSeq(HEX, k + 1, k + 1)
  IN  CASE n = 9 -> "\t"
        [] n = 10 -> "\n"
        [] n = 12 -> "\f"
        [] n = 13 -> "\r"
        [] n \in 32..95 -> SubSeq(ASCII, n - 31, n - 31)
        [] n \in 97..126 -> SubSeq(ASCII, n - 32, n - 32)
        [] OTHER -> "U+" \o digit(n \div 4096) \o digit((n \div 256) % 16)
                         \o digit((n \div 16) % 16) \o digit(n % 16)

\* the code points toLowerCase changes, by the character data of Unicode 17.0
\* (U+0130 apart, which becomes two): <<first, last, step, delta>> stands
\* for first, first + step, .. up to last, each of which becomes the code
\* point delta further on
LOWER_CASE ==
  { <<65, 90, 1, 32>>, <<192, 214, 1, 32>>, <<216, 222, 1, 32>>,
    <<256, 302, 2, 1>>, <<306, 310, 2, 1>>, <<313, 327, 2, 1>>,
    <<330, 374, 2, 1>>, <<376, 376, 1, -121>>, <<377, 381, 2, 1>>,
    <<385, 385, 1, 210>>, <<386, 388, 2, 1>>, <<390, 390, 1, 206>>,
    <<391, 391, 1, 1>>, <<393, 394, 1, 205>>, <<395, 395, 1, 1>>,
    <<398, 398, 1, 79>>, <<399, 399, 1, 202>>, <<400, 400, 1, 203>>,
    <<401, 401, 1, 1>>, <<403, 403, 1, 205>>, <<404, 404, 1, 207>>,
    <<406, 406, 1, 211>>, <<407, 407, 1, 209>>, <<408, 408, 1, 1>>,
    <<412, 412, 1, 211>>, <<413, 413, 1, 213>>, <<415, 415, 1, 214>>,
    <<416, 420, 2, 1>>, <<422, 422, 1, 218>>, <<423, 423, 1, 1>>,
    <<425, 425, 1, 218>>, <<428, 428, 1, 1>>, <<430, 430, 1, 218>>,
    <<431, 431, 1, 1>>, <<433, 434, 1, 217>>, <<435, 437, 2, 1>>,
    <<439, 439, 1, 219>>, <<440, 440, 1, 1>>, <<444, 444, 1, 1>>,
    <<452, 452, 1, 2>>, <<453, 453, 1, 1>>, <<455, 455, 1, 2>>,
    <<456, 456, 1, 1>>, <<458, 458, 1, 2>>, <<459, 475, 2, 1>>,
    <<478, 494, 2, 1>>, <<497, 497, 1, 2>>, <<498, 500, 2, 1>>,
    <<502, 502, 1, -97>>, <<503, 503, 1, -56>>, <<504, 542, 2, 1>>,
    <<544, 544, 1, -130>>, <<546, 562, 2, 1>>, <<570, 570, 1, 10795>>,
    <<571, 571, 1, 1>>, <<573, 573, 1, -163>>, <<574, 574, 1, 10792>>,
    <<577, 577, 1, 1>>, <<579, 579, 1, -195>>, <<580, 580, 1, 69>>,
    <<581, 581, 1, 71>>, <<582, 590, 2, 1>>, <<880, 882, 2, 1>>,
    <<886, 886, 1, 1>>, <<895, 895, 1, 116>>, <<902, 902, 1, 38>>,
    <<904, 906, 1, 37>>, <<908, 908, 1, 64>>, <<910, 911, 1, 63>>,
    <<913, 929, 1, 32>>, <<931, 939, 1, 32>>, <<975, 975, 1, 8>>,
    <<984, 1006, 2, 1>>, <<1012, 1012, 1, -60>>, <<1015, 1015, 1, 1>>,
    <<1017, 1017, 1, -7>>, <<1018, 1018, 1, 1>>, <<1021, 1023, 1, -130>>,
    <<1024, 1039, 1, 80>>, <<1040, 1071, 1, 32>>, <<1120, 1152, 2, 1>>,
    <<1162, 1214, 2, 1>>, <<1216, 1216, 1, 15>>, <<1217, 1229, 2, 1>>,
    <<1232, 1326, 2, 1>>, <<1329, 1366, 1, 48>>, <<4256, 4293, 1, 7264>>,
    <<4295, 4295, 1, 7264>>, <<4301, 4301, 1, 7264>>, <<5024, 5103, 1, 38864>>,
    <<5104, 5109, 1, 8>>, <<7305, 7305, 1, 1>>, <<7312, 7354, 1, -3008>>,
    <<7357, 7359, 1, -3008>>, <<7680, 7828, 2, 1>>, <<7838, 7838, 1, -7615>>,
    <<7840, 7934, 2, 1>>, <<7944, 7951, 1, -8>>, <<7960, 7965, 1, -8>>,
    <<7976, 7983, 1, -8>>, <<7992, 7999, 1, -8>>, <<8008, 8013, 1, -8>>,
    <<8025, 8031, 2, -8>>, <<8040, 8047, 1, -8>>, <<8072, 8079, 1, -8>>,
    <<8088, 8095, 1, -8>>, <<8104, 8111, 1, -8>>, <<8120, 8121, 1, -8>>,
    <<8122, 8123, 1, -74>>, <<8124, 8124, 1, -9>>, <<8136, 8139, 1, -86>>,
    <<8140, 8140, 1, -9>>, <<8152, 8153, 1, -8>>, <<8154, 8155, 1, -100>>,
    <<8168, 8169, 1, -8>>, <<8170, 8171, 1, -112>>, <<8172, 8172, 1, -7>>,
    <<8184, 8185, 1, -128>>, <<8186, 8187, 1, -126>>, <<8188, 8188, 1, -9>>,
    <<8486, 8486, 1, -7517>>, <<8490, 8490, 1, -8383>>,
    <<8491, 8491, 1, -8262>>, <<8498, 8498, 1, 28>>, <<8544, 8559, 1, 16>>,
    <<8579, 8579, 1, 1>>, <<9398, 9423, 1, 26>>, <<11264, 11311, 1, 48>>,
    <<11360, 11360, 1, 1>>, <<11362, 11362, 1, -10743>>,
    <<11363, 11363, 1, -3814>>, <<11364, 11364, 1, -10727>>,
    <<11367, 11371, 2, 1>>, <<11373, 11373, 1, -10780>>,
    <<11374, 11374, 1, -10749>>, <<11375, 11375, 1, -10783>>,
    <<11376, 11376, 1, -10782>>, <<11378, 11378, 1, 1>>,
    <<11381, 11381, 1, 1>>, <<11390, 11391, 1, -10815>>,
    <<11392, 11490, 2, 1>>, <<11499, 11501, 2, 1>>, <<11506, 11506, 1, 1>>,
    <<42560, 42604, 2, 1>>, <<42624, 42650, 2, 1>>, <<42786, 42798, 2, 1>>,
    <<42802, 42862, 2, 1>>, <<42873, 42875, 2, 1>>,
    <<42877, 42877, 1, -35332>>, <<42878, 42886, 2, 1>>,
    <<42891, 42891, 1, 1>>, <<42893, 42893, 1, -42280>>,
    <<42896, 42898, 2, 1>>, <<42902, 42920, 2, 1>>,
    <<42922, 42922, 1, -42308>>, <<42923, 42923, 1, -42319>>,
    <<42924, 42924, 1, -42315>>, <<42925, 42925, 1, -42305>>,
    <<42926, 42926, 1, -42308>>, <<42928, 42928, 1, -42258>>,
    <<42929, 42929, 1, -42282>>, <<42930, 42930, 1, -42261>>,
    <<42931, 42931, 1, 928>>, <<42932, 42946, 2, 1>>, <<42948, 42948, 1, -48>>,
    <<42949, 42949, 1, -42307>>, <<42950, 42950, 1, -35384>>,
    <<42951, 42953, 2, 1>>, <<42955, 42955, 1, -42343>>,
    <<42956, 42970, 2, 1>>, <<42972, 42972, 1, -42561>>,
    <<42997, 42997, 1, 1>>, <<65313, 65338, 1, 32>>, <<66560, 66599, 1, 40>>,
    <<66736, 66771, 1, 40>>, <<66928, 66938, 1, 39>>, <<66940, 66954, 1, 39>>,
    <<66956, 66962, 1, 39>>, <<66964, 66965, 1, 39>>, <<68736, 68786, 1, 64>>,
    <<68944, 68965, 1, 32>>, <<71840, 71871, 1, 32>>, <<93760, 93791, 1, 32>>,
    <<93856, 93880, 1, 27>>, <<125184, 125217, 1, 34>> }

\* the cased letters that are not case-ignorable: <<first, last>>
CASED ==
  { <<65, 90>>, <<97, 122>>, <<170, 170>>, <<181, 181>>, <<186, 186>>,
    <<192, 214>>, <<216, 246>>, <<248, 442>>, <<444, 447>>, <<452, 659>>,
    <<662, 687>>, <<880, 883>>, <<886, 887>>, <<891, 893>>, <<895, 895>>,
    <<902, 902>>, <<904, 906>>, <<908, 908>>, <<910, 929>>, <<931, 1013>>,
    <<1015, 1153>>, <<1162, 1327>>, <<1329, 1366>>, <<1376, 1416>>,
    <<4256, 4293>>, <<4295, 4295>>, <<4301, 4301>>, <<4304, 4346>>,
    <<4349, 4351>>, <<5024, 5109>>, <<5112, 5117>>, <<7296, 7306>>,
    <<7312, 7354>>, <<7357, 7359>>, <<7424, 7467>>, <<7531, 7543>>,
    <<7545, 7578>>, <<7680, 7957>>, <<7960, 7965>>, <<7968, 8005>>,
    <<8008, 8013>>, <<8016, 8023>>, <<8025, 8025>>, <<8027, 8027>>,
    <<8029, 8029>>, <<8031, 8061>>, <<8064, 8116>>, <<8118, 8124>>,
    <<8126, 8126>>, <<8130, 8132>>, <<8134, 8140>>, <<8144, 8147>>,
    <<8150, 8155>>, <<8160, 8172>>, <<8178, 8180>>, <<8182, 8188>>,
    <<8450, 8450>>, <<8455, 8455>>, <<8458, 8467>>, <<8469, 8469>>,
    <<8473, 8477>>, <<8484, 8484>>, <<8486, 8486>>, <<8488, 8488>>,
    <<8490, 8493>>, <<8495, 8500>>, <<8505, 8505>>, <<8508, 8511>>,
    <<8517, 8521>>, <<8526, 8526>>, <<8544, 8575>>, <<8579, 8580>>,
    <<9398, 9449>>, <<11264, 11387>>, <<11390, 11492>>, <<11499, 11502>>,
    <<11506, 11507>>, <<11520, 11557>>, <<11559, 11559>>, <<11565, 11565>>,
    <<42560, 42605>>, <<42624, 42651>>, <<42786, 42863>>, <<42865, 42887>>,
    <<42891, 42894>>, <<42896, 42972>>, <<42997, 42998>>, <<43002, 43002>>,
    <<43824, 43866>>, <<43872, 43880>>, <<43888, 43967>>, <<64256, 64262>>,
    <<64275, 64279>>, <<65313, 65338>>, <<65345, 65370>>, <<66560, 66639>>,
    <<66736, 66771>>, <<66776, 66811>>, <<66928, 66938>>, <<66940, 66954>>,
    <<66956, 66962>>, <<66964, 66965>>, <<66967, 66977>>, <<66979, 66993>>,
    <<66995, 67001>>, <<67003, 67004>>, <<68736, 68786>>, <<68800, 68850>>,
    <<68944, 68965>>, <<68976, 68997>>, <<71840, 71903>>, <<93760, 93823>>,
    <<93856, 93880>>, <<93883, 93907>>, <<119808, 119892>>, <<119894, 119964>>,
    <<119966, 119967>>, <<119970, 119970>>, <<119973, 119974>>,
    <<119977, 119980>>, <<119982, 119993>>, <<119995, 119995>>,
    <<119997, 120003>>, <<120005, 120069>>, <<120071, 120074>>,
    <<120077, 120084>>, <<120086, 120092>>, <<120094, 120121>>,
    <<120123, 120126>>, <<120128, 120132>>, <<120134, 120134>>,
    <<120138, 120144>>, <<120146, 120485>>, <<120488, 120512>>,
    <<120514, 120538>>, <<120540, 120570>>, <<120572, 120596>>,
    <<120598, 120628>>, <<120630, 120654>>, <<120656, 120686>>,
    <<120688, 120712>>, <<120714, 120744>>, <<120746, 120770>>,
    <<120772, 120779>>, <<122624, 122633>>, <<122635, 122654>>,
    <<122661, 122666>>, <<125184, 125251>>, <<127280, 127305>>,
    <<127312, 127337>>, <<127344, 127369>> }

\* the case-ignorable code points: <<first, last>>
CASE_IGNORABLE ==
  { <<39, 39>>, <<46, 46>>, <<58, 58>>, <<94, 94>>, <<96, 96>>, <<168, 168>>,
    <<173, 173>>, <<175, 175>>, <<180, 180>>, <<183, 184>>, <<688, 879>>,
    <<884, 885>>, <<890, 890>>, <<900, 901>>, <<903, 903>>, <<1155, 1161>>,
    <<1369, 1369>>, <<1375, 1375>>, <<1425, 1469>>, <<1471, 1471>>,
    <<1473, 1474>>, <<1476, 1477>>, <<1479, 1479>>, <<1524, 1524>>,
    <<1536, 1541>>, <<1552, 1562>>, <<1564, 1564>>, <<1600, 1600>>,
    <<1611, 1631>>, <<1648, 1648>>, <<1750, 1757>>, <<1759, 1768>>,
    <<1770, 1773>>, <<1807, 1807>>, <<1809, 1809>>, <<1840, 1866>>,
    <<1958, 1968>>, <<2027, 2037>>, <<2042, 2042>>, <<2045, 2045>>,
    <<2070, 2093>>, <<2137, 2139>>, <<2184, 2184>>, <<2192, 2193>>,
    <<2199, 2207>>, <<2249, 2306>>, <<2362, 2362>>, <<2364, 2364>>,
    <<2369, 2376>>, <<2381, 2381>>, <<2385, 2391>>, <<2402, 2403>>,
    <<2417, 2417>>, <<2433, 2433>>, <<2492, 2492>>, <<2497, 2500>>,
    <<2509, 2509>>, <<2530, 2531>>, <<2558, 2558>>, <<2561, 2562>>,
    <<2620, 2620>>, <<2625, 2626>>, <<2631, 2632>>, <<2635, 2637>>,
    <<2641, 2641>>, <<2672, 2673>>, <<2677, 2677>>, <<2689, 2690>>,
    <<2748, 2748>>, <<2753, 2757>>, <<2759, 2760>>, <<2765, 2765>>,
    <<2786, 2787>>, <<2810, 2815>>, <<2817, 2817>>, <<2876, 2876>>,
    <<2879, 2879>>, <<2881, 2884>>, <<2893, 2893>>, <<2901, 2902>>,
    <<2914, 2915>>, <<2946, 2946>>, <<3008, 3008>>, <<3021, 3021>>,
    <<3072, 3072>>, <<3076, 3076>>, <<3132, 3132>>, <<3134, 3136>>,
    <<3142, 3144>>, <<3146, 3149>>, <<3157, 3158>>, <<3170, 3171>>,
    <<3201, 3201>>, <<3260, 3260>>, <<3263, 3263>>, <<3270, 3270>>,
    <<3276, 3277>>, <<3298, 3299>>, <<3328, 3329>>, <<3387, 3388>>,
    <<3393, 3396>>, <<3405, 3405>>, <<3426, 3427>>, <<3457, 3457>>,
    <<3530, 3530>>, <<3538, 3540>>, <<3542, 3542>>, <<3633, 3633>>,
    <<3636, 3642>>, <<3654, 3662>>, <<3761, 3761>>, <<3764, 3772>>,
    <<3782, 3782>>, <<3784, 3790>>, <<3864, 3865>>, <<3893, 3893>>,
    <<3895, 3895>>, <<3897, 3897>>, <<3953, 3966>>, <<3968, 3972>>,
    <<3974, 3975>>, <<3981, 3991>>, <<3993, 4028>>, <<4038, 4038>>,
    <<4141, 4144>>, <<4146, 4151>>, <<4153, 4154>>, <<4157, 4158>>,
    <<4184, 4185>>, <<4190, 4192>>, <<4209, 4212>>, <<4226, 4226>>,
    <<4229, 4230>>, <<4237, 4237>>, <<4253, 4253>>, <<4348, 4348>>,
    <<4957, 4959>>, <<5906, 5908>>, <<5938, 5939>>, <<5970, 5971>>,
    <<6002, 6003>>, <<6068, 6069>>, <<6071, 6077>>, <<6086, 6086>>,
    <<6089, 6099>>, <<6103, 6103>>, <<6109, 6109>>, <<6155, 6159>>,
    <<6211, 6211>>, <<6277, 6278>>, <<6313, 6313>>, <<6432, 6434>>,
    <<6439, 6440>>, <<6450, 6450>>, <<6457, 6459>>, <<6679, 6680>>,
    <<6683, 6683>>, <<6742, 6742>>, <<6744, 6750>>, <<6752, 6752>>,
    <<6754, 6754>>, <<6757, 6764>>, <<6771, 6780>>, <<6783, 6783>>,
    <<6823, 6823>>, <<6832, 6877>>, <<6880, 6891>>, <<6912, 6915>>,
    <<6964, 6964>>, <<6966, 6970>>, <<6972, 6972>>, <<6978, 6978>>,
    <<7019, 7027>>, <<7040, 7041>>, <<7074, 7077>>, <<7080, 7081>>,
    <<7083, 7085>>, <<7142, 7142>>, <<7144, 7145>>, <<7149, 7149>>,
    <<7151, 7153>>, <<7212, 7219>>, <<7222, 7223>>, <<7288, 7293>>,
    <<7376, 7378>>, <<7380, 7392>>, <<7394, 7400>>, <<7405, 7405>>,
    <<7412, 7412>>, <<7416, 7417>>, <<7468, 7530>>, <<7544, 7544>>,
    <<7579, 7679>>, <<8125, 8125>>, <<8127, 8129>>, <<8141, 8143>>,
    <<8157, 8159>>, <<8173, 8175>>, <<8189, 8190>>, <<8203, 8207>>,
    <<8216, 8217>>, <<8228, 8228>>, <<8231, 8231>>, <<8234, 8238>>,
    <<8288, 8292>>, <<8294, 8303>>, <<8305, 8305>>, <<8319, 8319>>,
    <<8336, 8348>>, <<8400, 8432>>, <<11388, 11389>>, <<11503, 11505>>,
    <<11631, 11631>>, <<11647, 11647>>, <<11744, 11775>>, <<11823, 11823>>,
    <<12293, 12293>>, <<12330, 12333>>, <<12337, 12341>>, <<12347, 12347>>,
    <<12441, 12446>>, <<12540, 12542>>, <<40981, 40981>>, <<42232, 42237>>,
    <<42508, 42508>>, <<42607, 42610>>, <<42612, 42621>>, <<42623, 42623>>,
    <<42652, 42655>>, <<42736, 42737>>, <<42752, 42785>>, <<42864, 42864>>,
    <<42888, 42890>>, <<42993, 42996>>, <<43000, 43001>>, <<43010, 43010>>,
    <<43014, 43014>>, <<43019, 43019>>, <<43045, 43046>>, <<43052, 43052>>,
    <<43204, 43205>>, <<43232, 43249>>, <<43263, 43263>>, <<43302, 43309>>,
    <<43335, 43345>>, <<43392, 43394>>, <<43443, 43443>>, <<43446, 43449>>,
    <<43452, 43453>>, <<43471, 43471>>, <<43493, 43494>>, <<43561, 43566>>,
    <<43569, 43570>>, <<43573, 43574>>, <<43587, 43587>>, <<43596, 43596>>,
    <<43632, 43632>>, <<43644, 43644>>, <<43696, 43696>>, <<43698, 43700>>,
    <<43703, 43704>>, <<43710, 43711>>, <<43713, 43713>>, <<43741, 43741>>,
    <<43756, 43757>>, <<43763, 43764>>, <<43766, 43766>>, <<43867, 43871>>,
    <<43881, 43883>>, <<44005, 44005>>, <<44008, 44008>>, <<44013, 44013>>,
    <<64286, 64286>>, <<64434, 64450>>, <<65024, 65039>>, <<65043, 65043>>,
    <<65056, 65071>>, <<65106, 65106>>, <<65109, 65109>>, <<65279, 65279>>,
    <<65287, 65287>>, <<65294, 65294>>, <<65306, 65306>>, <<65342, 65342>>,
    <<65344, 65344>>, <<65392, 65392>>, <<65438, 65439>>, <<65507, 65507>>,
    <<65529, 65531>>, <<66045, 66045>>, <<66272, 66272>>, <<66422, 66426>>,
    <<67456, 67461>>, <<67463, 67504>>, <<67506, 67514>>, <<68097, 68099>>,
    <<68101, 68102>>, <<68108, 68111>>, <<68152, 68154>>, <<68159, 68159>>,
    <<68325, 68326>>, <<68900, 68903>>, <<68942, 68942>>, <<68969, 68973>>,
    <<68975, 68975>>, <<69291, 69292>>, <<69317, 69317>>, <<69370, 69375>>,
    <<69446, 69456>>, <<69506, 69509>>, <<69633, 69633>>, <<69688, 69702>>,
    <<69744, 69744>>, <<69747, 69748>>, <<69759, 69761>>, <<69811, 69814>>,
    <<69817, 69818>>, <<69821, 69821>>, <<69826, 69826>>, <<69837, 69837>>,
    <<69888, 69890>>, <<69927, 69931>>, <<69933, 69940>>, <<70003, 70003>>,
    <<70016, 70017>>, <<70070, 70078>>, <<70089, 70092>>, <<70095, 70095>>,
    <<70191, 70193>>, <<70196, 70196>>, <<70198, 70199>>, <<70206, 70206>>,
    <<70209, 70209>>, <<70367, 70367>>, <<70371, 70378>>, <<70400, 70401>>,
    <<70459, 70460>>, <<70464, 70464>>, <<70502, 70508>>, <<70512, 70516>>,
    <<70587, 70592>>, <<70606, 70606>>, <<70608, 70608>>, <<70610, 70610>>,
    <<70625, 70626>>, <<70712, 70719>>, <<70722, 70724>>, <<70726, 70726>>,
    <<70750, 70750>>, <<70835, 70840>>, <<70842, 70842>>, <<70847, 70848>>,
    <<70850, 70851>>, <<71090, 71093>>, <<71100, 71101>>, <<71103, 71104>>,
    <<71132, 71133>>, <<71219, 71226>>, <<71229, 71229>>, <<71231, 71232>>,
    <<71339, 71339>>, <<71341, 71341>>, <<71344, 71349>>, <<71351, 71351>>,
    <<71453, 71453>>, <<71455, 71455>>, <<71458, 71461>>, <<71463, 71467>>,
    <<71727, 71735>>, <<71737, 71738>>, <<71995, 71996>>, <<71998, 71998>>,
    <<72003, 72003>>, <<72148, 72151>>, <<72154, 72155>>, <<72160, 72160>>,
    <<72193, 72202>>, <<72243, 72248>>, <<72251, 72254>>, <<72263, 72263>>,
    <<72273, 72278>>, <<72281, 72283>>, <<72330, 72342>>, <<72344, 72345>>,
    <<72544, 72544>>, <<72546, 72548>>, <<72550, 72550>>, <<72752, 72758>>,
    <<72760, 72765>>, <<72767, 72767>>, <<72850, 72871>>, <<72874, 72880>>,
    <<72882, 72883>>, <<72885, 72886>>, <<73009, 73014>>, <<73018, 73018>>,
    <<73020, 73021>>, <<73023, 73029>>, <<73031, 73031>>, <<73104, 73105>>,
    <<73109, 73109>>, <<73111, 73111>>, <<73177, 73177>>, <<73459, 73460>>,
    <<73472, 73473>>, <<73526, 73530>>, <<73536, 73536>>, <<73538, 73538>>,
    <<73562, 73562>>, <<78896, 78912>>, <<78919, 78933>>, <<90398, 90409>>,
    <<90413, 90415>>, <<92912, 92916>>, <<92976, 92982>>, <<92992, 92995>>,
    <<93504, 93506>>, <<93547, 93548>>, <<94031, 94031>>, <<94095, 94111>>,
    <<94176, 94177>>, <<94179, 94180>>, <<94194, 94195>>, <<110576, 110579>>,
    <<110581, 110587>>, <<110589, 110590>>, <<113821, 113822>>,
    <<113824, 113827>>, <<118528, 118573>>, <<118576, 118598>>,
    <<119143, 119145>>, <<119155, 119170>>, <<119173, 119179>>,
    <<119210, 119213>>, <<119362, 119364>>, <<121344, 121398>>,
    <<121403, 121452>>, <<121461, 121461>>, <<121476, 121476>>,
    <<121499, 121503>>, <<121505, 121519>>, <<122880, 122886>>,
    <<122888, 122904>>, <<122907, 122913>>, <<122915, 122916>>,
    <<122918, 122922>>, <<122928, 122989>>, <<123023, 123023>>,
    <<123184, 123197>>, <<123566, 123566>>, <<123628, 123631>>,
    <<124139, 124143>>, <<124398, 124399>>, <<124643, 124643>>,
    <<124646, 124646>>, <<124654, 124655>>, <<124661, 124661>>,
    <<124671, 124671>>, <<125136, 125142>>, <<125252, 125259>>,
    <<127995, 127999>>, <<917505, 917505>>, <<917536, 917631>>,
    <<917760, 917999>> }

\* whether the code point c is in one of the ranges of T
InRanges(c, T) == \E r \in T : r[1] <= c /\ c <= r[2]

\* the code point of a high and a low surrogate, and back
PointOf(hi, lo) == 65536 + (hi - 55296) * 1024 + (lo - 56320)
IsHigh(n) == n \in 55296..56319
IsLow(n) == n \in 56320..57343

\* Final_Sigma, towards the start: going back from position i of the code
\* units u over case-ignorable characters, a cased letter is met
RECURSIVE CasedBefore(_, _)
CasedBefore(u, i) ==
  IF i < 1 THEN FALSE
  ELSE LET pair == i > 1 /\ IsLow(u[i]) /\ IsHigh(u[i - 1])
           c    == IF pair THEN PointOf(u[i - 1], u[i]) ELSE u[i]
       IN  IF InRanges(c, CASE_IGNORABLE)
           THEN CasedBefore(u, IF pair THEN i - 2 ELSE i - 1)
           ELSE InRanges(c, CASED)

\* Final_Sigma, towards the end: going on from position i
RECURSIVE CasedAfter(_, _)
CasedAfter(u, i) ==
  IF i > Len(u) THEN FALSE
  ELSE LET pair == i < Len(u) /\ IsHigh(u[i]) /\ IsLow(u[i + 1])
           c    == IF pair THEN PointOf(u[i], u[i + 1]) ELSE u[i]
       IN  IF InRanges(c, CASE_IGNORABLE)
           THEN CasedAfter(u, IF pair THEN i + 2 ELSE i + 1)
           ELSE InRanges(c, CASED)

\* toLowerCase at position i of the characters s, whose code units are u:
\* the characters it becomes.  The capital I with dot above becomes two
\* characters; the capital sigma becomes the final sigma after a cased
\* letter when no cased letter follows; a surrogate pair is one code point.
LowerOfChar(s, u, i) ==
  LET second == i > 1 /\ IsLow(u[i]) /\ IsHigh(u[i - 1])
      first  == i < Len(u) /\ IsHigh(u[i]) /\ IsLow(u[i + 1])
      c      == IF second THEN PointOf(u[i - 1], u[i])
                ELSE IF first THEN PointOf(u[i], u[i + 1]) ELSE u[i]
      to     == IF \E r \in LOWER_CASE : r[1] <= c /\ c <= r[2] /\ (c - r[1]) % r[3] = 0
                THEN c + (CHOOSE r \in LOWER_CASE :
                            r[1] <= c /\ c <= r[2] /\ (c - r[1]) % r[3] = 0)[4]
                ELSE c
  IN  IF c = 304 THEN <<"i", "U+0307">>
      ELSE IF c = 931 /\ CasedBefore(u, i - 1) /\ ~CasedAfter(u, i + 1)
      THEN <<"U+03C2">>
      ELSE IF to = c THEN <<s[i]>>
      ELSE IF to < 65536 THEN (IF second THEN <<>> ELSE <<CharOf(to)>>)
      ELSE IF second THEN <<CharOf(56320 + ((to - 65536) % 1024))>>
      ELSE <<CharOf(55296 + ((to - 65536) \div 1024))>>

\* the characters lo..hi of s, lower-cased
RECURSIVE LowerRange(_, _, _, _)
LowerRange(s, u, lo, hi) ==
  IF lo > hi THEN <<>>
  ELSE IF lo = hi THEN LowerOfChar(s, u, lo)
  ELSE LET h == (lo + hi) \div 2
       IN  LowerRange(s, u, lo, h) \o LowerRange(s, u, h + 1, hi)

\* s.toLowerCase()
ToLowerCase(s) ==
  CHOOSE t \in {LowerRange(s, u, 1, Len(s)) :
                  u \in {SubSeq([i \in 1..Len(s) |-> UnitOf(s[i])], 1, Len(s))}} : TRUE

\* s.replace(/\s+/g, ' '): every run of white space becomes one space
RECURSIVE CollapseSpaces(_)
CollapseSpaces(s) ==
  IF s = <<>> THEN <<>>
  ELSE IF IsSpace(s[1]) THEN <<" ">> \o CollapseSpaces(TrimLeft(s))
  ELSE <<s[1]>> \o CollapseSpaces(Tail(s))

\* the positions (from 0) at which q occurs in s
Occurrences(s, q) ==
  {i \in 0..(Len(s) - Len(q)) : SubSeq(s, i + 1, i + Len(q)) = q}

\* s.indexOf(q): the first occurrence, or -1
IndexOf(s, q) ==
  IF Occurrences(s, q) = {} THEN -1
  ELSE CHOOSE i \in Occurrences(s, q) : \A j \in Occurrences(s, q) : i <= j

\* idx of focusEditorAtText: case-sensitive first, then in the lower-cased
\* text for the lower-cased label
LocateIndex(text, q) ==
  IF IndexOf(text, q) # -1 THEN IndexOf(text, q)
  ELSE IndexOf(ToLowerCase(text), ToLowerCase(q))

\* setSelectionRange(start, end) on a text of n characters
SelectionRange(start, end, n) ==
  LET e == IF end > n THEN n ELSE end
      b == IF start > e THEN e ELSE start
  IN  <<b, e>>

\* focusEditorAtText(raw), raw being <<>> (null or undefined) or <<text>>
focusEditorAtText(raw) ==
  LET q   == IF raw = <<>> THEN <<>> ELSE Trim(CollapseSpaces(raw[1]))
      idx == LocateIndex(Chars(code), q)
  IN  /\ lastLabel' = raw
      /\ IF q # <<>> /\ idx # -1
         THEN /\ focused' = TRUE
              /\ selection' = SelectionRange(idx, idx + Len(q), Len(Chars(code)))
         ELSE UNCHANGED <<focused, selection>>
      /\ lastEvent' = "locate"
      /\ UNCHANGED <<passive, png, exportOpen, lastExport, appVars, resultVars, engineVars,
                     timerVars, callVars, viewVars, now, edits, views>>

(***************************************************************************)
(* export.ts: the raster export.                                           *)
(***************************************************************************)
\* at least 3x
minScale == 3
\* aim for a long edge of about 2000
targetLongest == 2000

\* what parseSvgSize reads of a graphic: the text of its first viewBox
\* attribute and of its first width and height attributes (<<>>: no such
\* attribute, else <<text>>; the text is never empty)
ExportSvg(vb, w, h) == [viewBox |-> vb, width |-> w, height |-> h]

\* t.split(/\s+/) of a trimmed text t
RECURSIVE SplitSpaces(_)
SplitSpaces(t) ==
  LET spaces == {i \in 1..Len(t) : IsSpace(t[i])}
  IN  IF spaces = {} THEN <<t>>
      ELSE LET i == CHOOSE j \in spaces : \A k \in spaces : j <= k
           IN  <<SubSeq(t, 1, i - 1)>> \o SplitSpaces(TrimLeft(SubSeq(t, i + 1, Len(t))))

\* toPx of parseSvgSize, for an attribute that may be absent: the number
\* parseFloat reads when that is finite, NaN otherwise
ToPx(v) ==
  IF v = <<>> THEN NaN
  ELSE LET num == ParseFloat(v[1])
       IN  IF IsFinite(num) THEN num ELSE NaN

IsPositive(v) == IsFinite(v) /\ v[1] > 0

\* parseSvgSize: <<[width, height]>>, or <<>> for null
parseSvgSize(g) ==
  LET tokens == IF g.viewBox = <<>> THEN <<>> ELSE SplitSpaces(Trim(g.viewBox[1]))
      parts  == [i \in 1..Len(tokens) |-> Number(tokens[i])]
      vbOk   == /\ Len(parts) = 4
                /\ \A i \in 1..4 : IsFinite(parts[i])
                /\ parts[3][1] > 0
                /\ parts[4][1] > 0
      w      == ToPx(g.width)
      h      == ToPx(g.height)
  IN  IF vbOk THEN <<[width |-> parts[3], height |-> parts[4]]>>
      ELSE IF IsPositive(w) /\ IsPositive(h) THEN <<[width |-> w, height |-> h]>>
      ELSE <<>>

\* targetLongest / baseLongest: the quotient of the two doubles
AutoRatio(baseLongest) ==
  [a |-> RDiv(RInt(targetLongest), baseLongest.a),
   x |-> DDiv(Fl(RInt(targetLongest)), baseLongest.x)]

\* Math.max(0.5, Math.min(8, computedScale))
ClampScale(computed) == ScaleMax(Scale(Rat(1, 2)), ScaleMin(Scale(RInt(8)), computed))

\* mutant: scale || auto, which takes a supplied 0 for none
EffectiveScaleOr(scale, sz) ==
  CHOOSE cs \in { ClampScale(IF scale = <<>> \/ scale = <<RInt(0)>>
                             THEN ScaleMax(Scale(RInt(minScale)), AutoRatio(baseLongest))
                             ELSE Scale(scale[1])) :
                    baseLongest \in {ScaleMax(Scale(sz.width), Scale(sz.height))} } : TRUE

\* computedScale of downloadPng: scale ?? Math.max(minScale, targetLongest /
\* baseLongest), clamped to [0.5, 8]; scale is <<>> when none is given.
\* The sizes are the Numbers the attributes read as, and every operation
\* is one on doubles.
EffectiveScale(scale, sz) ==
  CHOOSE cs \in { ClampScale(IF scale = <<>>
                             THEN ScaleMax(Scale(RInt(minScale)), AutoRatio(baseLongest))
                             ELSE Scale(scale[1])) :
                    baseLongest \in {ScaleMax(Scale(sz.width), Scale(sz.height))} } : TRUE

\* the canvas downloadPng(g, .., scale) draws on: Math.round of the
\* products of the doubles sz.width and sz.height with computedScale
Canvas(g, scale) ==
  LET sizes == { IF parsed = <<>> THEN [width |-> RInt(800), height |-> RInt(600)]
                 ELSE parsed[1] : parsed \in {parseSvgSize(g)} }
  IN  CHOOSE c \in UNION { { [ size |-> sz, given |-> scale, scale |-> cs,
                               width  |-> DRound(DMul(Fl(sz.width), cs.x)),
                               height |-> DRound(DMul(Fl(sz.height), cs.x)) ] :
                               cs \in {EffectiveScale(scale, sz)} } : sz \in sizes } : TRUE

\* downloadPng up to the canvas it draws on
downloadPng(g, scale) ==
      /\ png' = <<Canvas(g, scale)>>
      /\ lastEvent' = "exportPng"
      /\ UNCHANGED <<passive, focused, selection, lastLabel, exportOpen, lastExport, appVars,
                     resultVars, engineVars, timerVars, callVars, viewVars, now,
                     edits, views>>

(***************************************************************************)
(* Specifications.                                                         *)
(***************************************************************************)
Edit ==
  \/ \E c \in ModelCodes : SetCode(c)
  \/ \E t \in ModelThemes : SetTheme(t)
  \/ \E f \in ModelFonts : SetFont(f)
  \/ \E b \in BOOLEAN : SetAutoUpdate(b)

Settle ==
  \E c \in calls :
    \/ ParseOk(c)
    \/ \E err \in ParseErrors : ParseFail(c, err)
    \/ RenderOk(c)
    \/ \E e \in RenderErrors : RenderFail(c, e)

View ==
  \/ \E b \in BOOLEAN : SetFitToViewport(b)
  \/ (views < MaxViews /\ ZoomIn)
  \/ (views < MaxViews /\ ZoomOut)
  \/ (views < MaxViews /\ ResetZoom)
  \/ \E r \in MainRects : WindowResize(r)
  \/ \E r \in MainRects : ContainerResize(r)
  \/ ResizeObserved
  \/ onSplitterDown
  \/ \E x \in PointerXs : onMove(x)
  \/ onUp



\* a render in flight settles; a failure carries a message
SettleWithMessage ==
  \E c \in calls :
    \/ ParseOk(c)
    \/ \E err \in {e \in ParseErrors : e.str = "Error: Parse error on line 2"} : ParseFail(c, err)
    \/ RenderOk(c)
    \/ \E e \in {r \in RenderErrors : r.str = "Error: Render failed"} : RenderFail(c, e)

\* the debounce cycle: edits, the clock, the timer, manual renders; the
\* graphic of a settled render is committed before time passes
NextDebounce ==
  \/ \E c \in ModelCodes : SetCode(c)
  \/ \E t \in ModelThemes : SetTheme(t)
  \/ \E b \in BOOLEAN : SetAutoUpdate(b)
  \/ ManualRender
  \/ TimerFire
  \/ (Committed /\ Tick)
  \/ SettleWithMessage
  \/ Commit
  \/ Effects

SpecDebounce == Init /\ [][NextDebounce]_vars

\* renders in flight: manual renders of the text and configuration as
\* edited, started within one debounce delay and settling in any order
NextRender ==
  \/ \E c \in ModelCodes : SetCode(c)
  \/ \E t \in ModelThemes : SetTheme(t)
  \/ ManualRender
  \/ Settle
  \/ Commit
  \/ Effects

SpecRender == Init /\ [][NextRender]_vars

\* the viewport with renders of the text as edited (debounced ones, and
\* manual ones while no timer is pending and no render is in flight) that
\* succeed or fail with a message, timers that run when they are due, and
\* drags of one pointer that start while view events are left;
\* the split set by a pointer move is committed before anything but a further
\* pointer move happens (SpecSplit and SpecPersist take every interleaving)
NextView ==
  \/ (SplitCommitted /\ edits = 0 /\ \E c \in ModelCodes : SetCode(c))
  \/ (SplitCommitted /\ timers = {} /\ calls = {} /\ ManualRender)
  \/ (SplitCommitted /\ TimerFire)
  \/ (SplitCommitted /\ (\A t \in timers : t.due > now) /\ Elapse)
  \/ (SplitCommitted /\ SettleWithMessage)
  \/ Commit
  \/ Effects
  \/ (SplitCommitted /\ \E b \in BOOLEAN : SetFitToViewport(b))
  \/ (SplitCommitted /\ views < MaxViews /\ ZoomIn)
  \/ (SplitCommitted /\ views < MaxViews /\ ZoomOut)
  \/ (SplitCommitted /\ views < MaxViews /\ ResetZoom)
  \/ (SplitCommitted /\ \E r \in MainRects : WindowResize(r))
  \/ (SplitCommitted /\ \E r \in MainRects : ContainerResize(r))
  \/ (SplitCommitted /\ ResizeObserved)
  \/ (SplitCommitted /\ drag = <<>> /\ views < MaxViews /\ onSplitterDown)
  \/ \E x \in PointerXs : onMove(x)
  \/ (SplitCommitted /\ onUp)

SpecView == Init /\ [][NextView]_vars

\* a store that holds nothing
EmptyStore ==
  [diagram |-> Null, theme |-> Null, autoupdate |-> Null, font |-> Null,
   split |-> <<>>, hasSplit |-> FALSE]

\* what merViz.split.pct may hold at startup: in range, fractional, above,
\* below, negative, not a number, the empty string, with an exponent,
\* hexadecimal, infinite, within white space
SplitTexts ==
  { <<"3", "5">>, <<"6", "2", ".", "5">>, <<"9", "5">>, <<"5">>,
    <<"-", "1", "0">>, <<"a", "b", "c">>, <<>>,
    <<"1", "e", "2">>, <<"0", "x", "2", "8">>, <<"2", "5", "e", "-", "1">>,
    <<"I", "n", "f", "i", "n", "i", "t", "y">>,
    <<"\f", "U+00A0", "6", "5", "U+FEFF">> }

SplitStores ==
  {EmptyStore} \cup
  {[EmptyStore EXCEPT !.split = t, !.hasSplit = TRUE] : t \in SplitTexts}

InitSplit == \E st \in SplitStores : \E r \in MainRects : InitWith(st, r)

\* the pointer positions of a drag, from left of <main> to right of it;
\* 285, 575 and 920 are half-way between two integer percentages of one of
\* the two widths
SplitXs == {-40, 0, 150, 285, 333, 505, 575, 850, 920, 1000, 1700}

\* the split: any stored start value, drags in fit mode and in manual mode,
\* window resizes between and during them
NextSplit ==
  \/ onSplitterDown
  \/ \E x \in SplitXs : onMove(x)
  \/ onUp
  \/ Commit
  \/ Effects
  \/ \E r \in MainRects : WindowResize(r)
  \/ \E b \in BOOLEAN : SetFitToViewport(b)
  \/ ResizeObserved

SpecSplit == InitSplit /\ [][NextSplit]_vars

\* the stores of the race: auto-update is enabled
RaceStores == {EmptyStore, [EmptyStore EXCEPT !.theme = "midnightBlue"]}

\* the state after a render race on the store st: a render of the text
\* older, started before the last edit, settled after the debounced render
\* of the current text did, so the preview holds the result for older (its
\* graphic, or the message of its failure e); no render is in flight, no
\* timer is pending, and the clock and the counters of the history start
\* again.  The observer's last notification measured the preview as it is
\* now: a graphic gives its fit scale, and without one computeFitScale
\* returns early and the zoom stays what it was before, which is 1 when
\* the observer was not notified between the two settlements and the fit
\* scale of the current text's graphic when it was.
InitRaced(st, older, e) ==
  LET engine == MermaidInitialize(EngineDefaults,
                                  InitializeOptions(Config(InitialTheme(st), InitialFont(st))))
      stale  == IF Valid(older) THEN Sanitize(EngineSvg(older, engine, MaxRenders + 1))
                ELSE EmptySvg
      wrap   == WrapRect(DefaultRect, InitialLeftPct(st))
      fresh  == Sanitize(EngineSvg(InitialCode(st), engine, MaxRenders + 2))
      before == {ONE, ComputeFitScale(TRUE, Dom(fresh, Null), wrap, ONE)}
  IN  /\ older # InitialCode(st)
      /\ code = InitialCode(st)
      /\ theme = InitialTheme(st)
      /\ font = InitialFont(st)
      /\ autoUpdate = InitialAutoUpdate(st)
      /\ leftPct = InitialLeftPct(st)
      /\ svg = stale
      /\ error = IF Valid(older) THEN Null ELSE ErrorText(ParseFailure(e))
      /\ screen = [svg |-> svg, error |-> error, leftPct |-> leftPct]
      /\ passive = NoEffects
      /\ zoom \in {ComputeFitScale(TRUE, Dom(svg, error), wrap, z) : z \in before}
      /\ fitToViewport = TRUE
      /\ dragging = FALSE
      /\ drag = <<>>
      /\ storage = Persisted(code, theme, autoUpdate, font, leftPct)
      /\ initialized = TRUE
      /\ engineConfig = engine
      /\ timers = {}
      /\ timerId = 0
      /\ scheduled = 0
      /\ burst = <<>>
      /\ fired = <<>>
      /\ calls = {}
      /\ issued = 0
      /\ completed = 0
      /\ observing = TRUE
      /\ roPending = FALSE
      /\ mainRect = DefaultRect
      /\ now = 0
      /\ lastEvent = "raced"
      /\ edits = 0
      /\ views = 0
      /\ lastStart = <<>>
      /\ lastDone = <<>>
      /\ focused = FALSE
      /\ selection = <<0, 0>>
      /\ lastLabel = <<>>
      /\ png = <<>>
      /\ exportOpen = FALSE
      /\ lastExport = <<>>

InitRace ==
  \E st \in RaceStores : \E older \in ModelCodes : \E e \in ParseErrors :
    InitRaced(st, older, e)

\* after the race: changes of the text and the theme, the debounce timer,
\* the Render button, renders settling in any order
NextRace ==
  \/ \E c \in ModelCodes : SetCode(c)
  \/ \E t \in ModelThemes : SetTheme(t)
  \/ ManualRender
  \/ TimerFire
  \/ Elapse
  \/ Settle
  \/ Commit
  \/ Effects

SpecRace == InitRace /\ [][NextRace]_vars

\* the keys of the Theme select: the builtin themes and the presets
ThemeKeys == BUILTIN_THEMES \cup DOMAIN CUSTOM_THEMES

\* what merViz.theme.v1 may hold at startup: nothing, a key of the select,
\* or a text that is no key of this build (the cast `as ThemeKey` checks
\* nothing)
StoredThemes == {Null} \cup ThemeKeys \cup {"solarized", "toString"}

ThemeStores ==
  {[EmptyStore EXCEPT !.theme = t, !.font = f] :
     t \in StoredThemes, f \in {Null, ARIAL_FONT}}

InitTheme == \E st \in ThemeStores : InitFrom(st)

\* the Theme and Font selects, from any stored theme, and the debounced
\* renders of the configuration
NextTheme ==
  \/ \E t \in ThemeKeys : SetTheme(t)
  \/ \E f \in ModelFonts : SetFont(f)
  \/ Elapse
  \/ TimerFire
  \/ Settle
  \/ Commit
  \/ Effects

SpecTheme == InitTheme /\ [][NextTheme]_vars

\* the stores persistence starts on: nothing stored, everything stored, an
\* empty text stored
PersistStores == InitialStores \cup {[EmptyStore EXCEPT !.diagram = ""]}

InitPersist == \E st \in PersistStores : InitFrom(st)

\* the texts of the editor, the empty one included
PersistCodes == ModelCodes \cup {""}

\* changes of the five persisted values
NextPersist ==
  \/ \E c \in PersistCodes : SetCode(c)
  \/ \E t \in ThemeKeys : SetTheme(t)
  \/ \E f \in ModelFonts : SetFont(f)
  \/ \E b \in BOOLEAN : SetAutoUpdate(b)
  \/ onSplitterDown
  \/ \E x \in PointerXs : onMove(x)
  \/ onUp
  \/ Commit
  \/ Effects

SpecPersist == InitPersist /\ [][NextPersist]_vars

\* the diagram texts of the locate action
LocateCodes ==
  {DEFAULT_CODE, MIXED_CASE_CODE, DOTTED_I_CODE, ACCENT_CODE, SIGMA_CODE}

LocateStores == {[EmptyStore EXCEPT !.diagram = c] : c \in LocateCodes}

InitLocate == \E st \in LocateStores : InitFrom(st)

\* what a double click hands to focusEditorAtText: nothing, an empty or
\* blank text, labels in the case of the source and in another case (in
\* ASCII, with an accent, in Greek), a label broken over lines, a label
\* that is not in the source
LocateLabels ==
  { <<>>,
    <<<<>>>>,
    <<<<" ", "\n", " ">>>>,
    <<<<"S", "t", "a", "r", "t">>>>,
    <<<<"S", "T", "A", "R", "T">>>>,
    <<<<"D", "o", "\n", " ", " ", " ", "t", "h", "i", "n", "g">>>>,
    <<<<"z", "z", "z">>>>,
    <<<<"E", "n", "d">>>>,
    <<<<"e", "n", "d">>>>,
    <<<<"G", "O">>>>,
    <<<<"U+00E9", "c", "o", "l", "e">>>>,
    <<<<"U+03C3", "U+03B1", "U+03C2">>>>,
    <<<<"U+03A3", "U+0391", "U+03A3">>>>,
    <<<<" ", "C", "o", "n", "d", "i", "t", "i", "o", "n", "?", " ">>>> }

\* double clicks on labels, between edits of the text
NextLocate ==
  \/ \E raw \in LocateLabels : focusEditorAtText(raw)
  \/ \E c \in LocateCodes : SetCode(c)

SpecLocate == InitLocate /\ [][NextLocate]_vars

\* the graphics the raster export is exercised on, by what parseSvgSize
\* reads of them
ExportSvgs ==
  { ExportSvg(<<<<"0", " ", "0", " ", "8", "0", "0", " ", "6", "0", "0">>>>, <<>>, <<>>),
    ExportSvg(<<<<"0", " ", "0", " ", "4", "0", "0", "0", " ", "1", "0", "0">>>>, <<>>, <<>>),
    ExportSvg(<<<<"0", " ", "0", " ", "1", "0", "0", " ", "4", "0", "0", "0">>>>, <<<<"1", "0", "0", "%">>>>, <<>>),
    ExportSvg(<<<<"0", " ", "0", " ", "2", "5", "0", " ", "2", "5", "0">>>>, <<>>, <<>>),
    ExportSvg(<<<<"0", " ", "0", " ", "2", "0", "0", " ", "1", "0", "0">>>>, <<>>, <<>>),
    ExportSvg(<<<<"0", " ", "0", " ", "1", "0", "0", "0", " ", "5", "0", "0">>>>, <<>>, <<>>),
    ExportSvg(<<<<"0", " ", "0", " ", "5", "0", "0", " ", "4", "0", "0">>>>, <<>>, <<>>),
    ExportSvg(<<<<"0", " ", "0", " ", "0", ".", "5", " ", "0", ".", "2", "5">>>>, <<>>, <<>>),
    ExportSvg(<<<<"0", " ", "0", " ", "3", "3", "3", " ", "2", "0", "0">>>>, <<>>, <<>>),
    ExportSvg(<<<<"0", " ", "0", " ", "6", "0", "8", " ", "1", "9">>>>, <<<<"1", "0", "0", "%">>>>, <<>>),
    ExportSvg(<<<<"0", " ", "0", " ", "6", "0", "8", " ", "2", "8", "5">>>>, <<<<"1", "0", "0", "%">>>>, <<>>),
    ExportSvg(<<<<"0", " ", "0", " ", "3", "0", "0", ".", "3", " ", "1", "0", "0", ".", "7">>>>, <<>>, <<>>),
    ExportSvg(<<<<" ", "0", " ", " ", "0", " ", "6", "4", "0", " ", "4", "8", "0", " ">>>>, <<<<"1", "0", "0", "%">>>>, <<<<"5", "0">>>>),
    ExportSvg(<<<<"0", " ", "0", " ", "8", "0", "0">>>>, <<<<"6", "4", "0">>>>, <<<<"4", "8", "0", "p", "x">>>>),
    ExportSvg(<<<<"0", " ", "0", " ", "0", " ", "6", "0", "0">>>>, <<<<"3", "0", "0">>>>, <<<<"1", "5", "0">>>>),
    ExportSvg(<<<<"a", " ", "b", " ", "c", " ", "d">>>>, <<>>, <<>>),
    ExportSvg(<<>>, <<>>, <<>>),
    ExportSvg(<<>>, <<<<"1", "0", "0", "%">>>>, <<>>),
    ExportSvg(<<<<"0", ",", "0", ",", "8", "0", "0", ",", "6", "0", "0">>>>, <<<<"1", "2", ".", "5", "e", "m">>>>, <<<<"7">>>>),
    ExportSvg(<<>>, <<<<"0">>>>, <<<<"5", "0">>>>),
    ExportSvg(<<>>, <<<<"-", "5">>>>, <<<<"5", "0">>>>),
    ExportSvg(<<<<"0", " ", "0", " ", "1", "e", "2", " ", "0", "x", "3", "2">>>>, <<>>, <<>>),
    ExportSvg(<<<<"0", "U+00A0", "0", "\f", "3", "0", "0", "\t", "1", "5", "0">>>>, <<>>, <<>>),
    ExportSvg(<<<<"0", " ", "0", " ", "I", "n", "f", "i", "n", "i", "t", "y", " ", "5", "0">>>>,
              <<<<"1", "e", "2", "p", "x">>>>, <<<<"I", "n", "f", "i", "n", "i", "t", "y">>>>) }

\* the scale argument of downloadPng: none, or a number
ExportScales ==
  { <<>>, <<RInt(2)>>, <<RInt(1)>>, <<Rat(1, 2)>>, <<Rat(1, 4)>>, <<RInt(8)>>,
    <<RInt(10)>>, <<RInt(0)>>, <<RInt(3)>> }

\* raster exports of any graphic at any scale
NextExport == \E g \in ExportSvgs : \E sc \in ExportScales : downloadPng(g, sc)

SpecExport == Init /\ [][NextExport]_vars

\* the size attributes of the markup in the svg cell: none on the empty
\* string; on a graphic the engine's viewBox "0 0 w h" of its intrinsic box
\* and width="100%"
MarkupAttrs(svgState) ==
  IF svgState = EmptySvg THEN ExportSvg(<<>>, <<>>, <<>>)
  ELSE ExportSvg(<< <<"0", " ", "0", " ">> \o StringOfInt(SvgRect(svgState).width)
                      \o <<" ">> \o StringOfInt(SvgRect(svgState).height) >>,
                 << <<"1", "0", "0", "%">> >>, <<>>)

\* the Export button (disabled={!svg}): the menu opens or closes.  The
\* menu's handlers change the exportOpen cell in a click or a press, so
\* React renders at once, and runs the pending effects first.
ToggleExport ==
  /\ screen.svg # EmptySvg
  /\ exportOpen' = ~exportOpen
  /\ FlushPassive(TRUE)
  /\ lastEvent' = "exportToggle"
  /\ UNCHANGED <<focused, selection, lastLabel, png, lastExport, editVars, resultVars,
                 engineVars, timerVars, callVars, paneVars, now, edits, views>>

\* a pointer press outside the open menu, or Escape
CloseExport ==
  /\ exportOpen
  /\ exportOpen' = FALSE
  /\ FlushPassive(TRUE)
  /\ lastEvent' = "exportClose"
  /\ UNCHANGED <<focused, selection, lastLabel, png, lastExport, editVars, resultVars,
                 engineVars, timerVars, callVars, paneVars, now, edits, views>>

\* mutant: the handler lacks its `if (!svg) return`
onExportPngUnguarded(scale) ==
  LET given == IF scale = <<>> THEN <<RInt(2)>> ELSE scale
  IN  /\ exportOpen
      /\ png' = <<Canvas(MarkupAttrs(screen.svg), given)>>
      /\ lastExport' = <<[kind |-> "png", svg |-> screen.svg, scale |-> given]>>
      /\ lastEvent' = "exportPng"
      /\ exportOpen' = FALSE
      /\ FlushPassive(TRUE)
      /\ UNCHANGED <<focused, selection, lastLabel, editVars, resultVars, engineVars,
                     timerVars, callVars, paneVars, now, edits, views>>

\* a click on the menu's PNG item: onExportPng(scale), scale being <<>> when
\* the handler is called without an argument (scale = 2), then
\* setExportOpen(false)
onExportPng(scale) ==
  LET given == IF scale = <<>> THEN <<RInt(2)>> ELSE scale
  IN  /\ exportOpen
      /\ IF screen.svg # EmptySvg
         THEN /\ png' = <<Canvas(MarkupAttrs(screen.svg), given)>>
              /\ lastExport' = <<[kind |-> "png", svg |-> screen.svg, scale |-> given]>>
              /\ lastEvent' = "exportPng"
         ELSE /\ UNCHANGED <<png, lastExport>>
              /\ lastEvent' = "exportSkipped"
      /\ exportOpen' = FALSE
      /\ FlushPassive(TRUE)
      /\ UNCHANGED <<focused, selection, lastLabel, editVars, resultVars, engineVars,
                     timerVars, callVars, paneVars, now, edits, views>>

\* a click on the menu's SVG item: onExportSvg(), then setExportOpen(false)
onExportSvg ==
  /\ exportOpen
  /\ IF screen.svg # EmptySvg
     THEN /\ lastExport' = <<[kind |-> "svg", svg |-> screen.svg, scale |-> <<>>]>>
          /\ lastEvent' = "exportSvg"
     ELSE /\ UNCHANGED lastExport
          /\ lastEvent' = "exportSkipped"
  /\ exportOpen' = FALSE
  /\ FlushPassive(TRUE)
  /\ UNCHANGED <<focused, selection, lastLabel, png, editVars, resultVars, engineVars,
                 timerVars, callVars, paneVars, now, edits, views>>

\* the export menu, with manual renders of the text as edited settling
\* while it is open, and presses of the splitter, which close it
NextMenu ==
  \/ \E c \in ModelCodes : SetCode(c)
  \/ ManualRender
  \/ Settle
  \/ Commit
  \/ Effects
  \/ ToggleExport
  \/ CloseExport
  \/ onExportPng(<<>>)
  \/ onExportSvg
  \/ (drag = <<>> /\ onSplitterDown)
  \/ onUp

SpecMenu == Init /\ [][NextMenu]_vars

\* every operation of the program
Next ==
  \/ Edit
  \/ ManualRender
  \/ TimerFire
  \/ Tick
  \/ Settle
  \/ Commit
  \/ Effects
  \/ View
  \/ \E raw \in LocateLabels : focusEditorAtText(raw)
  \/ ToggleExport
  \/ CloseExport
  \/ onExportPng(<<>>)
  \/ onExportSvg

Spec == Init /\ [][Next]_vars

\* the boxes of <main> the fit computation is exercised on: a window too
\* small for any graphic, the two of MainRects, one larger than 3x needs,
\* and one in which the default diagram fits at 1.005, so that a zoom step
\* lands half-way between two hundredths
FitRects ==
  MainRects \cup { [left |-> 0, width |-> 120, height |-> 60],
                   [left |-> 0, width |-> 4000, height |-> 2000],
                   [left |-> 0, width |-> 1000, height |-> 635] }

InitZoom == \E st \in InitialStores : \E r \in FitRects : InitWith(st, r)

\* the zoom factor: a render of the text as loaded, in windows of any size,
\* with the fit toggle, the zoom buttons, resizes and drags of one pointer;
\* the split set by a pointer move is committed before anything but a further
\* pointer move happens (SpecSplit and SpecPersist take every interleaving)
NextZoom ==
  \/ (SplitCommitted /\ issued = 0 /\ ManualRender)
  \/ (SplitCommitted /\ Settle)
  \/ Commit
  \/ Effects
  \/ (SplitCommitted /\ \E b \in BOOLEAN : SetFitToViewport(b))
  \/ (SplitCommitted /\ views < MaxViews /\ ZoomIn)
  \/ (SplitCommitted /\ views < MaxViews /\ ZoomOut)
  \/ (SplitCommitted /\ views < MaxViews /\ ResetZoom)
  \/ (SplitCommitted /\ \E r \in FitRects : WindowResize(r))
  \/ (SplitCommitted /\ \E r \in FitRects : ContainerResize(r))
  \/ (SplitCommitted /\ ResizeObserved)
  \/ (SplitCommitted /\ drag = <<>> /\ onSplitterDown)
  \/ \E x \in PointerXs : onMove(x)
  \/ (SplitCommitted /\ onUp)

SpecZoom == InitZoom /\ [][NextZoom]_vars

\* the zoom buttons: a render of the text as loaded in a window of any size,
\* the fit toggle, and presses of the buttons one after the other
NextSteps ==
  \/ (issued = 0 /\ ManualRender)
  \/ Settle
  \/ Commit
  \/ Effects
  \/ ResizeObserved
  \/ \E b \in BOOLEAN : SetFitToViewport(b)
  \/ ZoomIn
  \/ ZoomOut
  \/ ResetZoom

SpecSteps == InitZoom /\ [][NextSteps]_vars

\* re-fitting: a manual render of the text as loaded, settling either way,
\* the fit toggle, resizes of the window and of the container, and drags of
\* one pointer; the split set by a pointer move is committed before anything
\* but a further pointer move happens
NextFit ==
  \/ (SplitCommitted /\ issued = 0 /\ ManualRender)
  \/ (SplitCommitted /\ Settle)
  \/ Commit
  \/ Effects
  \/ (SplitCommitted /\ \E b \in BOOLEAN : SetFitToViewport(b))
  \/ (SplitCommitted /\ \E r \in MainRects : WindowResize(r))
  \/ (SplitCommitted /\ \E r \in MainRects : ContainerResize(r))
  \/ (SplitCommitted /\ ResizeObserved)
  \/ (SplitCommitted /\ drag = <<>> /\ onSplitterDown)
  \/ \E x \in PointerXs : onMove(x)
  \/ (SplitCommitted /\ onUp)

\* React commits the render it has scheduled: WF_vars(Commit), written out
\* with the condition under which Commit can take a step
FairCommit == []<>Committed \/ []<><<Commit>>_vars

\* React runs the effects of a commit: WF_vars(Effects), written out
FairEffects == []<>(passive = NoEffects) \/ []<><<Effects>>_vars

\* the browser delivers the notification of an attached observer:
\* WF_vars(ResizeObserved), written out
FairObserved == []<>~(observing /\ roPending) \/ []<><<ResizeObserved>>_vars

SpecFit == Init /\ [][NextFit]_vars /\ FairCommit /\ FairEffects /\ FairObserved


(***************************************************************************)
(* Properties.                                                             *)
(***************************************************************************)
\* the render settled last, when there is one
Done == lastDone[1]
HasDone == lastDone # <<>>
DoneFailed == HasDone /\ Done.error # Null

\* C2: the stored graphic and the stored error are never both populated, in
\* any state reached by any interleaving of render completions: while an
\* error is stored no graphic is, while a graphic is stored the error is
\* null, and the preview holds the graphic's wrapper only without an error;
\* nor does the render committed to the screen hold both.
C2_NeverBoth ==
  /\ ~(SvgPopulated /\ ErrorPopulated)
  /\ ~(screen.svg # EmptySvg /\ screen.error \notin {Null, ""})
  /\ ErrorPopulated => svg = EmptySvg /\ ~Dom(svg, error).inner
  /\ SvgPopulated => error = Null /\ Dom(svg, error).svgEl = svg
  /\ DoneFailed => svg = EmptySvg

\* C2 witness: a render failed while a graphic was displayed; the graphic
\* is gone and the message is stored
C2_Witness ==
  /\ DoneFailed
  /\ Done.replaced.svgEl # EmptySvg
  /\ ErrorPopulated
  /\ svg = EmptySvg

\* C3: a call asks the engine to validate first and to render only after the
\* validation succeeded; a call whose validation failed made that one request
\* only, returned no markup, and failed with the validation failure's message,
\* or with 'Mermaid parse error' when that failure carries no message.
C3_ValidateFirst ==
  /\ \A c \in calls :
       /\ Len(c.seen) \in {1, 2}
       /\ Len(c.seen) = 2 => Valid(c.closure.code)
  /\ (HasDone /\ ~Valid(Done.closure.code)) =>
       /\ Done.requests = 1
       /\ Done.svg = EmptySvg
       /\ svg = EmptySvg
       /\ Done.error = IF Done.thrown \in {Undefined, ""}
                       THEN "Mermaid parse error" ELSE Done.thrown
  /\ (HasDone /\ Done.svg # EmptySvg) => Done.requests = 2 /\ Valid(Done.closure.code)

\* C3 witness: a validation failure without a message ended a call
C3_Witness ==
  /\ HasDone
  /\ ~Valid(Done.closure.code)
  /\ Done.thrown = ""
  /\ error = "Mermaid parse error"

\* C4 (as claimed): whenever a call has requested the graphic from the engine,
\* the engine's global configuration at that request was the configuration
\* passed to that call.
C4_SelfContained ==
  \A c \in calls :
    Len(c.seen) = 2 => c.seen[2] = InitializeOptions(c.closure.config)

\* C5: no render in flight is ever dropped (every render started is in flight
\* or has settled), and the graphic/error state is the outcome of the render
\* that settled last, whatever the order in which the renders were started.
C5_LastCompletionWins ==
  /\ issued = Cardinality(calls) + completed
  /\ \A c \in calls : c.seq \in 1..issued
  /\ HasDone => /\ svg = Done.svg
                /\ error = Done.error
                /\ Done.svg # EmptySvg => Done.svg.source = Done.closure.code

\* C5 witness: two renders overlapped, the one started first for other text
\* settled last, and its graphic is displayed though a newer text was rendered
C5_Witness ==
  /\ calls = {}
  /\ completed = 2
  /\ Done.seq = 1
  /\ lastStart[1].seq = 2
  /\ lastStart[1].code # Done.closure.code
  /\ SvgPopulated
  /\ svg.source = Done.closure.code

\* C10 (as claimed, for the states from the first settled render on): once
\* a render has settled exactly one of graphic and error is populated, and
\* in no state are both.
C10_ExactlyOneOnceSettled ==
  /\ ~(SvgPopulated /\ ErrorPopulated)
  /\ HasDone => (SvgPopulated /\ ~ErrorPopulated) \/ (~SvgPopulated /\ ErrorPopulated)

\* the last element of a non-empty sequence
Last(q) == q[Len(q)]

\* at most one debounced render is pending, and only while auto-update is
\* enabled; a pending one is due 250 after the last change and holds the text
\* and the configuration of that change; each burst of changes fires one
\* render (none while its timer is pending, one once it is gone), set for 250
\* after the burst's last change, with that change's text and configuration
LastEditWins ==
  /\ Cardinality(timers) <= 1
  /\ autoUpdate => burst # <<>>
  /\ \A t \in timers :
       /\ autoUpdate
       /\ t.due = Last(burst) + DEBOUNCE_MS
       /\ t.closure.code = code
       /\ t.closure.config = Config(theme, font)
  /\ timers # {} => fired = <<>>
  /\ (autoUpdate /\ timers = {}) => Len(fired) = 1
  /\ \A i \in 1..Len(fired) :
       /\ fired[i].due = Last(burst) + DEBOUNCE_MS
       /\ fired[i].code = code
       /\ fired[i].config = Config(theme, font)

\* the changes of the burst are each less than 250 apart
CloseChanges == \A i \in 1..(Len(burst) - 1) : burst[i + 1] - burst[i] < DEBOUNCE_MS

\* C1 (as claimed): with auto-update enabled at most one debounced render is
\* pending, each change cancels the pending one and schedules a new one 250
\* later, and a burst of changes each less than 250 apart fires exactly one
\* render, 250 after the last change, with that change's text and
\* configuration.
C1_Debounce ==
  /\ LastEditWins
  /\ CloseChanges => \A i \in 1..Len(fired) : fired[i].at = Last(burst) + DEBOUNCE_MS

\* C1 (amended): as claimed, except that the one render of a burst fires not
\* before 250 after the last change: it is set for that time and runs when
\* the event loop comes to it.
C1_DebounceNotBefore ==
  /\ LastEditWins
  /\ \A i \in 1..Len(fired) : fired[i].at >= Last(burst) + DEBOUNCE_MS

\* C1 witness: changes at t = 0, 100 and 150 fired one render, at t = 400,
\* with the text of the change at t = 150
C1_Witness ==
  /\ burst = <<0, 100, 150>>
  /\ Len(fired) = 1
  /\ fired[1].at = 400
  /\ fired[1].code = code
  /\ lastEvent = "timerFired"
  /\ issued = 1

\* C6: while auto-update is disabled no debounced render is pending; a render
\* starts only in a step that fires a due timer or is the manual render
\* action, never in a step that settles a render; a timer is scheduled only
\* by a change of text, configuration or the auto-update flag that leaves
\* auto-update enabled (or at startup).
C6_NoAutomaticRender ==
  /\ [](~autoUpdate => timers = {})
  /\ [][ issued' # issued =>
           /\ lastEvent' \in {"timerFired", "manualRender"}
           /\ completed' = completed
           /\ lastEvent' = "timerFired" =>
                /\ autoUpdate
                /\ \E t \in timers : t.due <= now /\ timers' = timers \ {t} ]_vars
  /\ [][ scheduled' # scheduled =>
           /\ autoUpdate'
           /\ lastEvent' \in {"setCode", "setTheme", "setFont", "setAutoUpdate"}
           /\ issued' = issued ]_vars
  /\ [][ (autoUpdate /\ ~autoUpdate') => timers' = {} ]_vars

\* C6 witness: with auto-update disabled a render has failed; nothing is
\* pending or in flight, and no second render was started
C6_Witness ==
  /\ ~autoUpdate
  /\ DoneFailed
  /\ ErrorPopulated
  /\ issued = 1
  /\ calls = {}
  /\ timers = {}
  /\ lastEvent = "tick"

\* C7: right after the manual render action a render is in flight that was
\* started by it, with the text and the configuration of that moment, with
\* auto-update enabled or disabled and whatever the debounce timer's state.
C7_ManualRenderImmediate ==
  lastEvent = "manualRender" =>
    /\ issued > 0
    /\ lastStart = <<[seq |-> issued, code |-> code, config |-> Config(theme, font)]>>
    /\ \E c \in calls :
         /\ c.seq = issued
         /\ c.closure.code = code
         /\ c.closure.config = Config(theme, font)
         /\ Len(c.seen) = 1

\* C7 witness: a manual render of edited text with auto-update disabled
C7_Witness ==
  /\ lastEvent = "manualRender"
  /\ ~autoUpdate
  /\ edits = 2
  /\ calls # {}

\* a graphic is on screen, and the scale that fits it as measured now
Displayed == Document.inner /\ Document.svgEl # EmptySvg
FitNow == FitScale(WrapRect(mainRect, Layout), SvgRect(screen.svg))

\* C8 (as claimed): a step that ends with fit mode disabled changes the zoom
\* factor only if fit mode was disabled before it and the step is a manual
\* zoom step or a reset; so no fit computation changes the zoom while fit
\* mode is disabled, and switching fit mode off leaves the zoom as it was.
C8_NoFitWorkWhileDisabled ==
  [][ (~fitToViewport' /\ zoom' # zoom) =>
        /\ ~fitToViewport
        /\ lastEvent' \in {"zoomIn", "zoomOut", "resetZoom"} ]_vars

\* a fit computation has just stored the zoom factor for the graphic and
\* the container as they are measured now
JustFitted ==
  /\ fitToViewport
  /\ Displayed
  /\ lastEvent \in {"setFit", "windowResize", "resizeObserved"}

\* C9: a fit computation that measures the graphic on screen in fit mode
\* (on the transition into fit mode, on a window resize, on a notification
\* of the observer) overwrites the zoom factor with the fit scale for the
\* current measurements; and whenever fit mode is enabled and a graphic is
\* displayed, after whatever event (a successful render committed to the
\* screen, a container resize, a window resize, a splitter move, the
\* transition into fit mode), the zoom factor comes to be the fit scale for
\* the measurements current then, unless fit mode is left or the graphic
\* goes first.
C9_FitFollows ==
  /\ [](JustFitted => zoom = FitNow)
  /\ (fitToViewport /\ Displayed) ~> (zoom = FitNow \/ ~fitToViewport \/ ~Displayed)

\* C9 witness: fit mode was switched on while a render started in manual mode
\* was in flight; the render succeeded, React committed its graphic and ran
\* the resize effect, the observer's notification was delivered, and the
\* zoom factor is the fit scale of the new graphic
C9_Witness ==
  /\ fitToViewport
  /\ Displayed
  /\ HasDone
  /\ ~Done.closure.fit
  /\ Done.svg = svg
  /\ lastEvent = "resizeObserved"
  /\ zoom = FitNow
  /\ zoom # ONE

\* C11: the zoom factor is within [0.1, 3.0] in every reachable state.
C11_ZoomInRange ==
  /\ RLe(Rat(1, 10), zoom.a) /\ RLe(zoom.a, RInt(3))
  /\ ~DLt(zoom.x, TENTH.x) /\ ~DLt(THREE.x, zoom.x)

\* C11 witness: in a window too small for the graphic the fit computation
\* stored the lower limit, the unclamped scale being smaller
C11_Witness ==
  /\ fitToViewport
  /\ Displayed
  /\ lastEvent = "resizeObserved"
  /\ zoom = TENTH
  /\ RLt(RawScale(WrapRect(mainRect, Layout), SvgRect(screen.svg)).a, Rat(1, 10))

\* a split within [20, 80]: the double, and the rational it stands for
InSplitRange(l) ==
  /\ RLe(RInt(20), l.a) /\ RLe(l.a, RInt(80))
  /\ ~DLt(l.x, MinPct.x) /\ ~DLt(MaxPct.x, l.x)

\* C12: the split ratio is within [20, 80] in every reachable state, for any
\* stored start value and any drag position, and the value persisted for it
\* is the decimal text of an integer within [20, 80].
C12_SplitInRange ==
  /\ InSplitRange(leftPct)
  /\ InSplitRange(screen.leftPct)
  /\ storage.hasSplit
  /\ AllDigits(storage.split)
  /\ NatOfDigits(storage.split) \in 20..80
  /\ \A i \in DOMAIN drag : InSplitRange(drag[i].latest)

\* C12 witness: a drag moved the pointer past the upper limit (every model
\* position that yields 80 lies above 80% of <main>); the split is 80 and
\* "80" is persisted
C12_Witness ==
  /\ lastEvent = "commit"
  /\ leftPct = MaxPct
  /\ screen.leftPct = leftPct
  /\ drag # <<>> /\ drag[1].latest = leftPct
  /\ storage.split = <<"8", "0">>

\* the intrinsic box of the graphic on screen, the container less 32, and
\* the smaller ratio of the two as computeFitScale takes it
BoxW == SvgRect(screen.svg).width
BoxH == SvgRect(screen.svg).height
RoomW == RSub(WrapRect(mainRect, Layout).width, RInt(2 * FIT_PAD))
RoomH == RSub(WrapRect(mainRect, Layout).height, RInt(2 * FIT_PAD))
RawNow == RawScale(WrapRect(mainRect, Layout), SvgRect(screen.svg))

\* the graphic scaled by the stored zoom factor, a double, is within the
\* container less 32 on both axes: zoom x width <= room exactly if
\* zoom <= room / width
ScaledFits ==
  /\ DLe(zoom.x, RDiv(RoomW, RInt(BoxW)))
  /\ DLe(zoom.x, RDiv(RoomH, RInt(BoxH)))

\* C13 (as claimed): for every container size and content size the scale a
\* fit computation stores keeps the scaled content within the container
\* less 32 on both axes.
C13_NoOverflow == JustFitted => ScaledFits

\* C13 (amended): whenever the smaller of the two ratios availW / w and
\* availH / h is at least 0.1, the stored scale exceeds neither ratio as
\* rounded to the nearest double, so the scaled content exceeds the
\* container less 32 by no more than the rounding of the scale; when the
\* smaller ratio is below 0.1 the stored scale is 0.1 and the scaled
\* content exceeds the available area on an axis.
C13_NoOverflowUpToRounding ==
  JustFitted =>
    /\ zoom = FitNow
    /\ RLe(Rat(1, 10), RawNow.a) =>
         /\ ~DLt(Fl(RDiv(RoomW, RInt(BoxW))), zoom.x)
         /\ ~DLt(Fl(RDiv(RoomH, RInt(BoxH))), zoom.x)
         /\ RLe(RMul(zoom.a, RInt(BoxW)), RoomW)
         /\ RLe(RMul(zoom.a, RInt(BoxH)), RoomH)
    /\ RLt(RawNow.a, Rat(1, 10)) =>
         /\ zoom = TENTH
         /\ ~ScaledFits

\* C13 witness: a fit computation stored a scale strictly between the
\* limits for a graphic narrower than the available width: the ratio of
\* the heights, rounded up to the double above it, so that the scaled
\* height exceeds the available height by the rounding alone
C13_Witness ==
  /\ JustFitted
  /\ RLt(Rat(1, 10), zoom.a) /\ RLt(zoom.a, RInt(3))
  /\ zoom.a = RDiv(RoomH, RInt(BoxH))
  /\ RLt(RMul(zoom.a, RInt(BoxW)), RoomW)
  /\ ~DLe(zoom.x, RDiv(RoomH, RInt(BoxH)))

\* the available area and the fit scale for a box of <main>, a split and a
\* graphic
AvailAt(r, pct) == Avail(WrapRect(r, pct))
FitAt(r, pct, g) == FitScale(WrapRect(r, pct), SvgRect(g))

\* p <= q for two scales: as doubles, and as the rationals they stand for
ScaleLe(p, q) == ~DLt(q.x, p.x) /\ RLe(p.a, q.a)

\* C14: for a graphic that stays the same, a step after which the available
\* width and height are both no larger than before does not increase the fit
\* scale clamp(min(availW / w, availH / h), 0.1, 3), nor the zoom factor when
\* a fit computation stored it before and after the step.
C14_FitMonotone ==
  [][ ( /\ Displayed /\ Displayed' /\ screen'.svg = screen.svg
        /\ RLe(AvailAt(mainRect', Layout').width, AvailAt(mainRect, Layout).width)
        /\ RLe(AvailAt(mainRect', Layout').height, AvailAt(mainRect, Layout).height) ) =>
          /\ ScaleLe(FitAt(mainRect', Layout', screen.svg), FitAt(mainRect, Layout, screen.svg))
          /\ (JustFitted /\ JustFitted') => ScaleLe(zoom', zoom) ]_vars

\* C14 witness: the window shrank to the smallest one (every other window of
\* the model is larger on both axes) and the fit computation stored a scale
\* smaller than the fit scale in any of the others
C14_Witness ==
  /\ JustFitted
  /\ lastEvent = "windowResize"
  /\ \A r \in FitRects : mainRect.width <= r.width /\ mainRect.height <= r.height
  /\ \A r \in FitRects \ {mainRect} :
       DLt(zoom.x, FitScale(WrapRect(r, Layout), SvgRect(screen.svg)).x)

\* the last raster export
Png == png[1]

\* the effective scale of the last raster export in exact arithmetic: the
\* supplied scale if one is given, otherwise max(3, 2000 / max(w, h)),
\* clamped to [0.5, 8]
ExactScale ==
  LET auto == RMax(RInt(3), RDiv(RInt(2000), RMax(Png.size.width, Png.size.height)))
  IN  RMax(Rat(1, 2), RMin(RInt(8), IF Png.given # <<>> THEN Png.given[1] ELSE auto))

\* px is the exact product of len and the exact scale, rounded to the
\* nearest integer; of a product half-way between two integers, either
NearestToProduct(px, len) ==
  LET p == RMul(len, ExactScale)
  IN  IF p[2] = 2 THEN px \in {RRound(p) - 1, RRound(p)} ELSE px = RRound(p)

OccurrencesIgnoringCase(text, q) ==
  {i \in 0..(Len(text) - Len(q)) :
     ToLowerCase(SubSeq(text, i + 1, i + Len(q))) = ToLowerCase(q)}

\* least element of a non-empty set of numbers
Least(S) == CHOOSE i \in S : \A j \in S : i <= j

\* what the claim says of one locate of raw in text, from focus f0 and
\* selection s0 to f1 and s1
LocatedAsClaimed(text, raw, f0, s0, f1, s1) ==
  LET q    == IF raw = <<>> THEN <<>> ELSE Trim(CollapseSpaces(raw[1]))
      same == Occurrences(text, q)
      fold == OccurrencesIgnoringCase(text, q)
  IN  IF q = <<>> \/ (same = {} /\ fold = {})
      THEN f1 = f0 /\ s1 = s0
      ELSE LET i == IF same # {} THEN Least(same) ELSE Least(fold)
           IN  /\ f1
               /\ s1 = <<i, i + Len(q)>>
               /\ ToLowerCase(SubSeq(text, s1[1] + 1, s1[2])) = ToLowerCase(q)
               /\ same # {} => SubSeq(text, s1[1] + 1, s1[2]) = q

\* C16 (as claimed): a locate searches the normalised label in the source,
\* case-sensitively first and ignoring case only if that finds nothing; on a
\* match the editor is focused and the selection is exactly the first match,
\* so the selected source text equals the label (up to case in the
\* fallback); with an empty label or no match focus and selection are left
\* as they were.
C16_LocateSelectsLabel ==
  [][ lastEvent' = "locate" =>
        LocatedAsClaimed(Chars(code), lastLabel', focused, selection,
                         focused', selection') ]_vars

\* the preview after the render with the id given, of closure cl, that ran
\* alone on the engine
ResultFor(cl, id) ==
  Dom(Sanitize(EngineSvg(cl.code,
        MermaidInitialize(EngineDefaults, InitializeOptions(cl.config)), id)), Null)

\* C17 (as claimed): after a render race left the result of older input on
\* screen, once the debounced render of a later change has fired and
\* completed, with no other render in flight, the displayed result is the
\* one for the text and configuration current when its timer fired: its
\* failure, or the graphic of that text under that configuration.
C17_SelfCorrects ==
  (HasDone /\ Done.debounced /\ calls = {}) =>
     /\ Dom(svg, error) = Dom(Done.svg, Done.error)
     /\ Done.error = Null => Dom(svg, error) = ResultFor(Done.closure, Done.seq)

\* C18 (as claimed): for every selected theme key (a builtin theme, a
\* preset, or whatever key was loaded from the store) and every selected
\* font, the derived configuration has a base theme that is one of the five
\* builtin themes (the preset's base for a preset key, the key itself for a
\* builtin key), security level 'strict', and the selected font both as the
\* top-level font family and as the fontFamily entry of the variable
\* overrides.
C18_ConfigInvariant ==
  LET k == Config(theme, font)
  IN  /\ k.theme \in BUILTIN_THEMES
      /\ theme \in DOMAIN CUSTOM_THEMES => k.theme = CUSTOM_THEMES[theme].base
      /\ theme \in BUILTIN_THEMES => k.theme = theme
      /\ k.securityLevel = "strict"
      /\ k.fontFamily = font
      /\ k.themeVariables.fontFamily = font
      /\ \A t \in timers : t.closure.config = k

\* C19 (as claimed): after any sequence of changes of the text, the theme
\* key, the auto-update flag, the font and the split, every persisted entry
\* equals the current value of its state (the split as its rounded integer,
\* once React has committed it and run its effects), so a restart that
\* re-reads the store restores the same text (the empty text included),
\* theme key, flag and font, and the split rounded to an integer; a store
\* without entries yields the default diagram, 'default', auto-update on,
\* the Inter font stack and 50.
C19_PersistenceRoundTrip ==
  /\ storage.diagram = code
  /\ storage.theme = theme
  /\ storage.autoupdate = StringOfBool(autoUpdate)
  /\ storage.font = font
  /\ storage.hasSplit
  /\ (Committed /\ passive = NoEffects) =>
       storage.split = StringOfInt(MathRound(leftPct.x, leftPct.a))
  /\ InitialCode(storage) = code
  /\ InitialTheme(storage) = theme
  /\ InitialAutoUpdate(storage) = autoUpdate
  /\ InitialFont(storage) = font
  /\ (Committed /\ passive = NoEffects) =>
       InitialLeftPct(storage) = Pct(RInt(MathRound(leftPct.x, leftPct.a)))
  /\ InitialCode(EmptyStore) = DEFAULT_CODE
  /\ InitialTheme(EmptyStore) = "default"
  /\ InitialAutoUpdate(EmptyStore) = TRUE
  /\ InitialFont(EmptyStore) = DEFAULT_FONT
  /\ InitialLeftPct(EmptyStore) = Pct(RInt(50))

\* C20 (as claimed): from every zoom value that can be current in manual
\* mode a zoom-in step yields min(3, z + 0.1) and a zoom-out step yields
\* max(0.2, z - 0.1); a zoom-out step never increases the zoom factor, a
\* zoom-in step never decreases it, and after a manual step the zoom factor
\* is within [0.2, 3].
C20_ZoomSteps ==
  [][ /\ lastEvent' = "zoomIn" =>
           /\ zoom' = Scale(RMin(RInt(3), RAdd(zoom.a, Rat(1, 10))))
           /\ ScaleLe(zoom, zoom')
      /\ lastEvent' = "zoomOut" =>
           /\ zoom' = Scale(RMax(Rat(2, 10), RSub(zoom.a, Rat(1, 10))))
           /\ ScaleLe(zoom', zoom)
      /\ lastEvent' \in {"zoomIn", "zoomOut"} =>
           ScaleLe(FIFTH, zoom') /\ ScaleLe(zoom', THREE) ]_vars

\* the hundredths nearest to x: the multiples of 1/100 no farther than
\* 1/200 from x (two of them when x is half-way between two hundredths)
NearestHundredths(x) ==
  LET k == RMul(x, RInt(100))[1] \div RMul(x, RInt(100))[2]
  IN  { r \in {Rat(k, 100), Rat(k + 1, 100)} :
          RLe(RSub(x, Rat(1, 200)), r) /\ RLe(r, RAdd(x, Rat(1, 200))) }

\* C20 (amended): a zoom-in step yields min(3, r) for a hundredth r
\* nearest to z + 0.1, and a zoom-out step yields max(0.2, r) for a
\* hundredth r nearest to z - 0.1 (where two hundredths are equally near,
\* the binary value of the sum decides: from the fit result 1.005 the
\* steps yield 1.1 and 0.9); a zoom-in step never decreases the zoom
\* factor; a zoom-out step never increases it when z is at least 0.2, and
\* raises it to 0.2 when z is a fit result below 0.2; after a manual step
\* the zoom factor is within [0.2, 3].
C20_ZoomStepsRounded ==
  [][ /\ lastEvent' = "zoomIn" =>
           /\ \E r \in NearestHundredths(RAdd(zoom.a, Rat(1, 10))) :
                zoom' = Scale(RMin(RInt(3), r))
           /\ ScaleLe(zoom, zoom')
           /\ zoom.a = Rat(201, 200) => zoom' = Scale(Rat(11, 10))
      /\ lastEvent' = "zoomOut" =>
           /\ \E r \in NearestHundredths(RSub(zoom.a, Rat(1, 10))) :
                zoom' = Scale(RMax(Rat(2, 10), r))
           /\ RLe(Rat(2, 10), zoom.a) => ScaleLe(zoom', zoom)
           /\ RLt(zoom.a, Rat(2, 10)) => zoom' = FIFTH
           /\ zoom.a = Rat(201, 200) => zoom' = Scale(Rat(9, 10))
      /\ lastEvent' \in {"zoomIn", "zoomOut"} =>
           ScaleLe(FIFTH, zoom') /\ ScaleLe(zoom', THREE) ]_vars

\* C20 witness: fit mode was switched off on a graphic whose fit result is
\* the lower clamp 0.1, and the zoom-out step that followed raised the zoom
\* factor to 0.2
C20_Witness ==
  /\ lastEvent = "zoomOut"
  /\ ~fitToViewport
  /\ Displayed
  /\ FitNow = TENTH
  /\ zoom = FIFTH

\* the step of the Render button leaves every pending timer in place with
\* its due time, and the render it starts is of the same text and
\* configuration as the pending timer's
ButtonKeepsTimers ==
  lastEvent' = "manualRender" =>
    /\ timers' = timers
    /\ timerId' = timerId
    /\ \A t \in timers :
         /\ lastStart'[1].code = t.closure.code
         /\ lastStart'[1].config = t.closure.config

\* C21 (as claimed): a manual render does not cancel a pending debounced
\* render, and the timer fires at its original time, starting a render of
\* the text and configuration it holds.
C21_FiresOnTime ==
  [][ /\ ButtonKeepsTimers
      /\ lastEvent' = "timerFired" =>
           \E t \in timers :
             /\ timers' = timers \ {t}
             /\ now = t.due
             /\ fired'[Len(fired')].at = t.due
             /\ lastStart'[1].code = t.closure.code
             /\ lastStart'[1].config = t.closure.config ]_vars

\* C21 (amended): a manual render does not cancel a pending debounced render:
\* the timer stays set for its original time and fires at that time or after
\* it, starting a render of the text and configuration it holds, so two
\* renders of the same input may be in flight at once.
C21_ManualKeepsTimer ==
  [][ /\ ButtonKeepsTimers
      /\ lastEvent' = "timerFired" =>
           \E t \in timers :
             /\ timers' = timers \ {t}
             /\ now >= t.due
             /\ fired'[Len(fired')].due = t.due
             /\ fired'[Len(fired')].at = now
             /\ lastStart'[1].code = t.closure.code
             /\ lastStart'[1].config = t.closure.config ]_vars

\* C21 witness: the Render button was pressed while a timer was pending, the
\* timer fired after its due time, and both renders of the same text and
\* configuration are in flight
C21_Witness ==
  /\ lastEvent = "timerFired"
  /\ \E m \in calls : \E d \in calls :
       /\ ~m.debounced /\ d.debounced
       /\ m.seq < d.seq
       /\ m.closure = d.closure
  /\ Len(fired) = 1
  /\ fired[1].due = burst[Len(burst)] + DEBOUNCE_MS
  /\ fired[1].at > fired[1].due

\* C22: a download is started from the menu only with a non-empty graphic
\* on screen, of that graphic; a click on a menu item while the screen
\* holds none (the menu was opened before the render failed) starts none;
\* and every raster export from the menu passes the scale 2, which is the
\* scale of its canvas whatever the size of the graphic.
C22_MenuExport ==
  [][ /\ lastEvent' \in {"exportPng", "exportSvg"} =>
           /\ screen.svg # EmptySvg
           /\ lastExport' # <<>>
           /\ lastExport'[1].svg = screen.svg
      /\ lastEvent' = "exportPng" =>
           /\ lastExport'[1].scale = <<RInt(2)>>
           /\ png'[1].given = <<RInt(2)>>
           /\ png'[1].scale = Scale(RInt(2))
      /\ (screen.svg = EmptySvg \/ lastEvent' = "exportSkipped") =>
           /\ lastExport' = lastExport
           /\ png' = png ]_vars

\* C22 witness: a raster export from the menu at scale 2, then the menu was
\* opened again, the next render failed, and the click on a menu item in
\* the error state started no download
C22_Witness ==
  /\ lastEvent = "exportSkipped"
  /\ ErrorPopulated
  /\ svg = EmptySvg
  /\ Committed
  /\ lastExport # <<>> /\ lastExport[1].kind = "png"
  /\ png # <<>> /\ png[1].scale = Scale(RInt(2))
  /\ png[1].width = RRound(RMul(RInt(2), png[1].size.width))
  /\ RLe(RMax(png[1].size.width, png[1].size.height), RInt(600))

=============================================================================
